---------------------------- MODULE Spec2Model ----------------------------
(***************************************************************************)
(* Model of the Feishu -> TAPD webhook bridge (webhook_service.py,         *)
(* field_mapper.py, config.py).                                            *)
(*                                                                         *)
(* Text.  A Python str is a sequence of characters; a character is a       *)
(* one-element TLA+ string.  The tools accept ASCII only, so every CJK     *)
(* character is written as one pinyin token ("gao" is the character U+9AD8,*)
(* "biao","ti" are the two characters of the label "title" in Chinese).    *)
(* Any other character outside printable ASCII, and the grave accent, is   *)
(* the token that names its code point: "u212a" is U+212A, "u1f600" is     *)
(* U+1F600.  Chars is the set of characters the model knows the case       *)
(* mapping and the printability of; str.lower(), str.upper() and repr()    *)
(* have no value on a text that holds a character outside it.              *)
(* Dictionary keys are only ever compared for equality and are kept as     *)
(* atomic TLA+ strings: an ASCII key is its characters, and the Chinese    *)
(* labels are transliterated by the table below.  Two characters that read *)
(* alike are two tokens ("ming" U+540D, "ming4" U+547D), and an ASCII key  *)
(* that spells a transliteration has no name in the model:                 *)
(*   biaoti 标题, mingcheng 名称, xuqiumingcheng 需求名称, miaoshu 描述,     *)
(*   xiangximiaoshu 详细描述, chuliren 处理人, fuzeren 负责人,               *)
(*   chuangjianren 创建人, youxianji 优先级, biaoqianleixing 标签类型,       *)
(*   biaoqian 标签, xuqiuleibie 需求类别, diedai 迭代, banben 版本,          *)
(*   mokuai 模块, yujikaishi 预计开始, yujijieshu 预计结束, tupian 图片,     *)
(*   jietu 截图, fujiantupian 附件图片, leixing 类型, quexianbiaoti 缺陷标题,*)
(*   dangqianchuliren 当前处理人, baogaoren 报告人,                         *)
(*   yanzhongchengdu 严重程度, faxianbanben 发现版本.                       *)
(*                                                                         *)
(* JSON values are tagged records:                                         *)
(*   [t |-> "str", s |-> chars]   [t |-> "num", n |-> Int]                 *)
(*   [t |-> "bool", b |-> BOOLEAN] [t |-> "null"]                          *)
(*   [t |-> "list", items |-> Seq(value)]                                  *)
(*   [t |-> "dict", d |-> Seq(<<key, value>>)]  (insertion-ordered).       *)
(***************************************************************************)
EXTENDS Integers, Sequences, FiniteSets, TLC

VARIABLES
    pc,           \* position of the request in handle_request
    body,         \* the decoded payload object of the request in flight
    received,     \* the payload as it arrived, before parse_feishu_request wrote to it
    hint,         \* parse_feishu_request's local ticket_type before normalisation
    ticket_type,  \* the classified ticket type
    record_data,  \* the working record returned by parse_feishu_request
    embedImages,  \* build_story / build_bug's include_images_in_description
    built,        \* what build_story / build_bug did for this request
    calls,        \* external submission calls made for this request, in order
    api_reply,    \* what the TAPD client answered to the call, if one was made
    result,       \* the CreateTicketResult of create_ticket
    response,     \* what the webhook answers
    pure,         \* a helper called on its own: its name, argument and return value
    handler,      \* what the shared FeishuWebhookHandler holds: the configuration
    inflight,     \* the locals of the requests running concurrently on the handler
    verification_token,  \* config.feishu.verification_token
    http          \* the raw body and signature headers of the webhook request

vars == <<pc, body, received, hint, ticket_type, record_data, embedImages, built, calls,
          api_reply, result, response, pure, handler, inflight,
          verification_token, http>>

\* what one request through handle_request never touches
pairVars == <<handler, inflight>>
httpVars == <<verification_token, http>>

----------------------------------------------------------------------------
(* Program string literals.                                                *)

S_story == <<"s", "t", "o", "r", "y">>
S_xuqiu == <<"xu", "qiu">>
S_xuqiudan == <<"xu", "qiu", "dan">>
S_requirement == <<"r", "e", "q", "u", "i", "r", "e", "m", "e", "n", "t">>
S_bug == <<"b", "u", "g">>
S_quexian == <<"que", "xian">>
S_quexiandan == <<"que", "xian", "dan">>
S_defect == <<"d", "e", "f", "e", "c", "t">>
S_task == <<"t", "a", "s", "k">>
S_renwu == <<"ren", "wu4">>
S_renwudan == <<"ren", "wu4", "dan">>
S_True == <<"T", "r", "u", "e">>
S_False == <<"F", "a", "l", "s", "e">>
S_None == <<"N", "o", "n", "e">>
S_http == <<"h", "t", "t", "p", ":", "/", "/">>
S_https == <<"h", "t", "t", "p", "s", ":", "/", "/">>
S_image == <<"i", "m", "a", "g", "e">>
S_workspace_id == <<"4", "1", "8", "2", "7", "9", "9", "7">>
S_web_base_url == <<"h", "t", "t", "p", "s", ":", "/", "/", "w", "w", "w", ".", "t", "a", "p", "d", ".", "c", "n">>
S_story_path == <<"/", "p", "r", "o", "n", "g", "/", "s", "t", "o", "r", "i", "e", "s", "/", "v", "i", "e", "w", "/">>
S_bug_path == <<"/", "b", "u", "g", "t", "r", "a", "c", "e", "/", "b", "u", "g", "s", "/", "v", "i", "e", "w", "/">>
S_task_path == <<"/", "p", "r", "o", "n", "g", "/", "t", "a", "s", "k", "s", "/", "v", "i", "e", "w", "/">>
S_br == <<"<", "b", "r", "/", ">">>
S_brbr == <<"<", "b", "r", "/", ">", "<", "b", "r", "/", ">">>
S_img_p_open == <<"<", "p", ">", "tu", "pian">>
S_img_p_close == <<":", "<", "/", "p", ">">>
S_img_src == <<"<", "i", "m", "g", " ", "s", "r", "c", "=", "\"">>
S_img_alt == <<"\"", " ", "a", "l", "t", "=", "\"", "tu", "pian">>
S_img_style == <<"\"", " ", "s", "t", "y", "l", "e", "=", "\"", "m", "a", "x", "-", "w", "i", "d", "t", "h", ":", " ">>
S_img_end == <<";", "\"", " ", "/", ">">>
S_max_width == <<"8", "0", "0", "p", "x">>

image_extensions ==
    { <<".", "p", "n", "g">>, <<".", "j", "p", "g">>, <<".", "j", "p", "e", "g">>,
      <<".", "g", "i", "f">>, <<".", "b", "m", "p">>, <<".", "w", "e", "b", "p">>,
      <<".", "s", "v", "g">> }

----------------------------------------------------------------------------
(* Python's str operations on character sequences.                         *)

UpperChars == <<"A","B","C","D","E","F","G","H","I","J","K","L","M",
                "N","O","P","Q","R","S","T","U","V","W","X","Y","Z">>
LowerChars == <<"a","b","c","d","e","f","g","h","i","j","k","l","m",
                "n","o","p","q","r","s","t","u","v","w","x","y","z">>

\* the characters str.isspace() accepts, which are those str.strip() removes
\* and the pattern class \s matches; one that no string literal can hold is
\* a token naming its code point
Whitespace ==
    { " ", "\t", "\n", "\r", "\f",
      "u000b", "u001c", "u001d", "u001e", "u001f", "u0085",
      "u00a0", "u1680", "u2000", "u2001", "u2002", "u2003",
      "u2004", "u2005", "u2006", "u2007", "u2008", "u2009",
      "u200a", "u2028", "u2029", "u202f", "u205f", "u3000" }

\* The characters of the model: ASCII, the CJK characters of the labels and
\* vocabularies, and the characters below, each a token naming its code point
\* (the controls, Latin-1 and Latin Extended-A, Greek, basic Cyrillic, format
\* characters, ligatures, surrogates and a few others).  The operations whose
\* result depends on the class of a character (lower, upper, repr) have no
\* value on a text that holds any other character.
AsciiChars ==
    { " ", "!", "\"", "#", "$", "%", "&", "'", "(", ")", "*", "+", ",", "-", ".", "/",
      "0", "1", "2", "3", "4", "5", "6", "7", "8", "9", ":", ";", "<", "=", ">", "?",
      "@", "A", "B", "C", "D", "E", "F", "G", "H", "I", "J", "K", "L", "M", "N", "O",
      "P", "Q", "R", "S", "T", "U", "V", "W", "X", "Y", "Z", "[", "\\", "]", "^", "_",
      "u0060", "a", "b", "c", "d", "e", "f", "g", "h", "i", "j", "k", "l", "m", "n", "o",
      "p", "q", "r", "s", "t", "u", "v", "w", "x", "y", "z", "{", "|", "}", "~", "\t",
      "\n", "\r", "\f" }

CjkChars ==
    { "ban", "biao", "cheng", "dan", "di", "gao", "guan", "ji2", "jian", "jie", "jin3",
      "ming", "ming4", "pian", "qi", "qiu", "que", "ren", "shi", "ta", "ti", "ti2", "tu",
      "wu", "wu4", "xian", "xu", "yan", "yao", "yi", "yi4", "zhi", "zhong", "zhong4" }

OtherChars ==
    { "u0000", "u0001", "u0002", "u0003", "u0004", "u0005", "u0006", "u0007",
      "u0008", "u000b", "u000e", "u000f", "u0010", "u0011", "u0012", "u0013",
      "u0014", "u0015", "u0016", "u0017", "u0018", "u0019", "u001a", "u001b",
      "u001c", "u001d", "u001e", "u001f", "u007f", "u0080", "u0081", "u0082",
      "u0083", "u0084", "u0085", "u0086", "u0087", "u0088", "u0089", "u008a",
      "u008b", "u008c", "u008d", "u008e", "u008f", "u0090", "u0091", "u0092",
      "u0093", "u0094", "u0095", "u0096", "u0097", "u0098", "u0099", "u009a",
      "u009b", "u009c", "u009d", "u009e", "u009f", "u00a0", "u00a1", "u00a2",
      "u00a3", "u00a4", "u00a5", "u00a6", "u00a7", "u00a8", "u00a9", "u00aa",
      "u00ab", "u00ac", "u00ad", "u00ae", "u00af", "u00b0", "u00b1", "u00b2",
      "u00b3", "u00b4", "u00b5", "u00b6", "u00b7", "u00b8", "u00b9", "u00ba",
      "u00bb", "u00bc", "u00bd", "u00be", "u00bf", "u00c0", "u00c1", "u00c2",
      "u00c3", "u00c4", "u00c5", "u00c6", "u00c7", "u00c8", "u00c9", "u00ca",
      "u00cb", "u00cc", "u00cd", "u00ce", "u00cf", "u00d0", "u00d1", "u00d2",
      "u00d3", "u00d4", "u00d5", "u00d6", "u00d7", "u00d8", "u00d9", "u00da",
      "u00db", "u00dc", "u00dd", "u00de", "u00df", "u00e0", "u00e1", "u00e2",
      "u00e3", "u00e4", "u00e5", "u00e6", "u00e7", "u00e8", "u00e9", "u00ea",
      "u00eb", "u00ec", "u00ed", "u00ee", "u00ef", "u00f0", "u00f1", "u00f2",
      "u00f3", "u00f4", "u00f5", "u00f6", "u00f7", "u00f8", "u00f9", "u00fa",
      "u00fb", "u00fc", "u00fd", "u00fe", "u00ff", "u0100", "u0101", "u0102",
      "u0103", "u0104", "u0105", "u0106", "u0107", "u0108", "u0109", "u010a",
      "u010b", "u010c", "u010d", "u010e", "u010f", "u0110", "u0111", "u0112",
      "u0113", "u0114", "u0115", "u0116", "u0117", "u0118", "u0119", "u011a",
      "u011b", "u011c", "u011d", "u011e", "u011f", "u0120", "u0121", "u0122",
      "u0123", "u0124", "u0125", "u0126", "u0127", "u0128", "u0129", "u012a",
      "u012b", "u012c", "u012d", "u012e", "u012f", "u0130", "u0131", "u0132",
      "u0133", "u0134", "u0135", "u0136", "u0137", "u0138", "u0139", "u013a",
      "u013b", "u013c", "u013d", "u013e", "u013f", "u0140", "u0141", "u0142",
      "u0143", "u0144", "u0145", "u0146", "u0147", "u0148", "u0149", "u014a",
      "u014b", "u014c", "u014d", "u014e", "u014f", "u0150", "u0151", "u0152",
      "u0153", "u0154", "u0155", "u0156", "u0157", "u0158", "u0159", "u015a",
      "u015b", "u015c", "u015d", "u015e", "u015f", "u0160", "u0161", "u0162",
      "u0163", "u0164", "u0165", "u0166", "u0167", "u0168", "u0169", "u016a",
      "u016b", "u016c", "u016d", "u016e", "u016f", "u0170", "u0171", "u0172",
      "u0173", "u0174", "u0175", "u0176", "u0177", "u0178", "u0179", "u017a",
      "u017b", "u017c", "u017d", "u017e", "u017f", "u02bc", "u0301", "u0307",
      "u0308", "u0370", "u0371", "u0372", "u0373", "u0374", "u0375", "u0376",
      "u0377", "u0378", "u0379", "u037a", "u037b", "u037c", "u037d", "u037e",
      "u037f", "u0380", "u0381", "u0382", "u0383", "u0384", "u0385", "u0386",
      "u0387", "u0388", "u0389", "u038a", "u038b", "u038c", "u038d", "u038e",
      "u038f", "u0390", "u0391", "u0392", "u0393", "u0394", "u0395", "u0396",
      "u0397", "u0398", "u0399", "u039a", "u039b", "u039c", "u039d", "u039e",
      "u039f", "u03a0", "u03a1", "u03a2", "u03a3", "u03a4", "u03a5", "u03a6",
      "u03a7", "u03a8", "u03a9", "u03aa", "u03ab", "u03ac", "u03ad", "u03ae",
      "u03af", "u03b0", "u03b1", "u03b2", "u03b3", "u03b4", "u03b5", "u03b6",
      "u03b7", "u03b8", "u03b9", "u03ba", "u03bb", "u03bc", "u03bd", "u03be",
      "u03bf", "u03c0", "u03c1", "u03c2", "u03c3", "u03c4", "u03c5", "u03c6",
      "u03c7", "u03c8", "u03c9", "u03ca", "u03cb", "u03cc", "u03cd", "u03ce",
      "u03cf", "u03d0", "u03d1", "u03d2", "u03d3", "u03d4", "u03d5", "u03d6",
      "u03d7", "u03d8", "u03d9", "u03da", "u03db", "u03dc", "u03dd", "u03de",
      "u03df", "u03e0", "u03e1", "u03e2", "u03e3", "u03e4", "u03e5", "u03e6",
      "u03e7", "u03e8", "u03e9", "u03ea", "u03eb", "u03ec", "u03ed", "u03ee",
      "u03ef", "u03f0", "u03f1", "u03f2", "u03f3", "u03f4", "u03f5", "u03f6",
      "u03f7", "u03f8", "u03f9", "u03fa", "u03fb", "u03fc", "u03fd", "u03fe",
      "u03ff", "u0400", "u0401", "u0402", "u0403", "u0404", "u0405", "u0406",
      "u0407", "u0408", "u0409", "u040a", "u040b", "u040c", "u040d", "u040e",
      "u040f", "u0410", "u0411", "u0412", "u0413", "u0414", "u0415", "u0416",
      "u0417", "u0418", "u0419", "u041a", "u041b", "u041c", "u041d", "u041e",
      "u041f", "u0420", "u0421", "u0422", "u0423", "u0424", "u0425", "u0426",
      "u0427", "u0428", "u0429", "u042a", "u042b", "u042c", "u042d", "u042e",
      "u042f", "u0430", "u0431", "u0432", "u0433", "u0434", "u0435", "u0436",
      "u0437", "u0438", "u0439", "u043a", "u043b", "u043c", "u043d", "u043e",
      "u043f", "u0440", "u0441", "u0442", "u0443", "u0444", "u0445", "u0446",
      "u0447", "u0448", "u0449", "u044a", "u044b", "u044c", "u044d", "u044e",
      "u044f", "u0450", "u0451", "u0452", "u0453", "u0454", "u0455", "u0456",
      "u0457", "u0458", "u0459", "u045a", "u045b", "u045c", "u045d", "u045e",
      "u045f", "u1680", "u1e9e", "u2000", "u2001", "u2002", "u2003", "u2004",
      "u2005", "u2006", "u2007", "u2008", "u2009", "u200a", "u200b", "u200c",
      "u200d", "u200e", "u200f", "u2028", "u2029", "u202a", "u202b", "u202c",
      "u202d", "u202e", "u202f", "u205f", "u2060", "u2061", "u2062", "u2063",
      "u2064", "u2126", "u212a", "u212b", "u3000", "u3001", "ud800", "udbff",
      "udc00", "udfff", "ue000", "ufb00", "ufb01", "ufb02", "ufb03", "ufb04",
      "ufb05", "ufb06", "ufeff", "uff0c", "ufffe", "uffff", "u10400", "u10428",
      "u1f600", "ue0001", "u10ffff" }

Chars == AsciiChars \cup CjkChars \cup OtherChars

NoValue(x) == CHOOSE y \in {} : y = x

\* str.lower() of one character, where it is not that character
LowerOf ==
    [ u00c0 |-> <<"u00e0">>, u00c1 |-> <<"u00e1">>, u00c2 |-> <<"u00e2">>,
      u00c3 |-> <<"u00e3">>, u00c4 |-> <<"u00e4">>, u00c5 |-> <<"u00e5">>,
      u00c6 |-> <<"u00e6">>, u00c7 |-> <<"u00e7">>, u00c8 |-> <<"u00e8">>,
      u00c9 |-> <<"u00e9">>, u00ca |-> <<"u00ea">>, u00cb |-> <<"u00eb">>,
      u00cc |-> <<"u00ec">>, u00cd |-> <<"u00ed">>, u00ce |-> <<"u00ee">>,
      u00cf |-> <<"u00ef">>, u00d0 |-> <<"u00f0">>, u00d1 |-> <<"u00f1">>,
      u00d2 |-> <<"u00f2">>, u00d3 |-> <<"u00f3">>, u00d4 |-> <<"u00f4">>,
      u00d5 |-> <<"u00f5">>, u00d6 |-> <<"u00f6">>, u00d8 |-> <<"u00f8">>,
      u00d9 |-> <<"u00f9">>, u00da |-> <<"u00fa">>, u00db |-> <<"u00fb">>,
      u00dc |-> <<"u00fc">>, u00dd |-> <<"u00fd">>, u00de |-> <<"u00fe">>,
      u0100 |-> <<"u0101">>, u0102 |-> <<"u0103">>, u0104 |-> <<"u0105">>,
      u0106 |-> <<"u0107">>, u0108 |-> <<"u0109">>, u010a |-> <<"u010b">>,
      u010c |-> <<"u010d">>, u010e |-> <<"u010f">>, u0110 |-> <<"u0111">>,
      u0112 |-> <<"u0113">>, u0114 |-> <<"u0115">>, u0116 |-> <<"u0117">>,
      u0118 |-> <<"u0119">>, u011a |-> <<"u011b">>, u011c |-> <<"u011d">>,
      u011e |-> <<"u011f">>, u0120 |-> <<"u0121">>, u0122 |-> <<"u0123">>,
      u0124 |-> <<"u0125">>, u0126 |-> <<"u0127">>, u0128 |-> <<"u0129">>,
      u012a |-> <<"u012b">>, u012c |-> <<"u012d">>, u012e |-> <<"u012f">>,
      u0130 |-> <<"i", "u0307">>, u0132 |-> <<"u0133">>, u0134 |-> <<"u0135">>,
      u0136 |-> <<"u0137">>, u0139 |-> <<"u013a">>, u013b |-> <<"u013c">>,
      u013d |-> <<"u013e">>, u013f |-> <<"u0140">>, u0141 |-> <<"u0142">>,
      u0143 |-> <<"u0144">>, u0145 |-> <<"u0146">>, u0147 |-> <<"u0148">>,
      u014a |-> <<"u014b">>, u014c |-> <<"u014d">>, u014e |-> <<"u014f">>,
      u0150 |-> <<"u0151">>, u0152 |-> <<"u0153">>, u0154 |-> <<"u0155">>,
      u0156 |-> <<"u0157">>, u0158 |-> <<"u0159">>, u015a |-> <<"u015b">>,
      u015c |-> <<"u015d">>, u015e |-> <<"u015f">>, u0160 |-> <<"u0161">>,
      u0162 |-> <<"u0163">>, u0164 |-> <<"u0165">>, u0166 |-> <<"u0167">>,
      u0168 |-> <<"u0169">>, u016a |-> <<"u016b">>, u016c |-> <<"u016d">>,
      u016e |-> <<"u016f">>, u0170 |-> <<"u0171">>, u0172 |-> <<"u0173">>,
      u0174 |-> <<"u0175">>, u0176 |-> <<"u0177">>, u0178 |-> <<"u00ff">>,
      u0179 |-> <<"u017a">>, u017b |-> <<"u017c">>, u017d |-> <<"u017e">>,
      u0370 |-> <<"u0371">>, u0372 |-> <<"u0373">>, u0376 |-> <<"u0377">>,
      u037f |-> <<"u03f3">>, u0386 |-> <<"u03ac">>, u0388 |-> <<"u03ad">>,
      u0389 |-> <<"u03ae">>, u038a |-> <<"u03af">>, u038c |-> <<"u03cc">>,
      u038e |-> <<"u03cd">>, u038f |-> <<"u03ce">>, u0391 |-> <<"u03b1">>,
      u0392 |-> <<"u03b2">>, u0393 |-> <<"u03b3">>, u0394 |-> <<"u03b4">>,
      u0395 |-> <<"u03b5">>, u0396 |-> <<"u03b6">>, u0397 |-> <<"u03b7">>,
      u0398 |-> <<"u03b8">>, u0399 |-> <<"u03b9">>, u039a |-> <<"u03ba">>,
      u039b |-> <<"u03bb">>, u039c |-> <<"u03bc">>, u039d |-> <<"u03bd">>,
      u039e |-> <<"u03be">>, u039f |-> <<"u03bf">>, u03a0 |-> <<"u03c0">>,
      u03a1 |-> <<"u03c1">>, u03a3 |-> <<"u03c3">>, u03a4 |-> <<"u03c4">>,
      u03a5 |-> <<"u03c5">>, u03a6 |-> <<"u03c6">>, u03a7 |-> <<"u03c7">>,
      u03a8 |-> <<"u03c8">>, u03a9 |-> <<"u03c9">>, u03aa |-> <<"u03ca">>,
      u03ab |-> <<"u03cb">>, u03cf |-> <<"u03d7">>, u03d8 |-> <<"u03d9">>,
      u03da |-> <<"u03db">>, u03dc |-> <<"u03dd">>, u03de |-> <<"u03df">>,
      u03e0 |-> <<"u03e1">>, u03e2 |-> <<"u03e3">>, u03e4 |-> <<"u03e5">>,
      u03e6 |-> <<"u03e7">>, u03e8 |-> <<"u03e9">>, u03ea |-> <<"u03eb">>,
      u03ec |-> <<"u03ed">>, u03ee |-> <<"u03ef">>, u03f4 |-> <<"u03b8">>,
      u03f7 |-> <<"u03f8">>, u03f9 |-> <<"u03f2">>, u03fa |-> <<"u03fb">>,
      u03fd |-> <<"u037b">>, u03fe |-> <<"u037c">>, u03ff |-> <<"u037d">>,
      u0400 |-> <<"u0450">>, u0401 |-> <<"u0451">>, u0402 |-> <<"u0452">>,
      u0403 |-> <<"u0453">>, u0404 |-> <<"u0454">>, u0405 |-> <<"u0455">>,
      u0406 |-> <<"u0456">>, u0407 |-> <<"u0457">>, u0408 |-> <<"u0458">>,
      u0409 |-> <<"u0459">>, u040a |-> <<"u045a">>, u040b |-> <<"u045b">>,
      u040c |-> <<"u045c">>, u040d |-> <<"u045d">>, u040e |-> <<"u045e">>,
      u040f |-> <<"u045f">>, u0410 |-> <<"u0430">>, u0411 |-> <<"u0431">>,
      u0412 |-> <<"u0432">>, u0413 |-> <<"u0433">>, u0414 |-> <<"u0434">>,
      u0415 |-> <<"u0435">>, u0416 |-> <<"u0436">>, u0417 |-> <<"u0437">>,
      u0418 |-> <<"u0438">>, u0419 |-> <<"u0439">>, u041a |-> <<"u043a">>,
      u041b |-> <<"u043b">>, u041c |-> <<"u043c">>, u041d |-> <<"u043d">>,
      u041e |-> <<"u043e">>, u041f |-> <<"u043f">>, u0420 |-> <<"u0440">>,
      u0421 |-> <<"u0441">>, u0422 |-> <<"u0442">>, u0423 |-> <<"u0443">>,
      u0424 |-> <<"u0444">>, u0425 |-> <<"u0445">>, u0426 |-> <<"u0446">>,
      u0427 |-> <<"u0447">>, u0428 |-> <<"u0448">>, u0429 |-> <<"u0449">>,
      u042a |-> <<"u044a">>, u042b |-> <<"u044b">>, u042c |-> <<"u044c">>,
      u042d |-> <<"u044d">>, u042e |-> <<"u044e">>, u042f |-> <<"u044f">>,
      u1e9e |-> <<"u00df">>, u2126 |-> <<"u03c9">>, u212a |-> <<"k">>,
      u212b |-> <<"u00e5">>, u10400 |-> <<"u10428">> ]

\* str.upper() of one character, where it is not that character
UpperOf ==
    [ u00b5 |-> <<"u039c">>, u00df |-> <<"S", "S">>, u00e0 |-> <<"u00c0">>,
      u00e1 |-> <<"u00c1">>, u00e2 |-> <<"u00c2">>, u00e3 |-> <<"u00c3">>,
      u00e4 |-> <<"u00c4">>, u00e5 |-> <<"u00c5">>, u00e6 |-> <<"u00c6">>,
      u00e7 |-> <<"u00c7">>, u00e8 |-> <<"u00c8">>, u00e9 |-> <<"u00c9">>,
      u00ea |-> <<"u00ca">>, u00eb |-> <<"u00cb">>, u00ec |-> <<"u00cc">>,
      u00ed |-> <<"u00cd">>, u00ee |-> <<"u00ce">>, u00ef |-> <<"u00cf">>,
      u00f0 |-> <<"u00d0">>, u00f1 |-> <<"u00d1">>, u00f2 |-> <<"u00d2">>,
      u00f3 |-> <<"u00d3">>, u00f4 |-> <<"u00d4">>, u00f5 |-> <<"u00d5">>,
      u00f6 |-> <<"u00d6">>, u00f8 |-> <<"u00d8">>, u00f9 |-> <<"u00d9">>,
      u00fa |-> <<"u00da">>, u00fb |-> <<"u00db">>, u00fc |-> <<"u00dc">>,
      u00fd |-> <<"u00dd">>, u00fe |-> <<"u00de">>, u00ff |-> <<"u0178">>,
      u0101 |-> <<"u0100">>, u0103 |-> <<"u0102">>, u0105 |-> <<"u0104">>,
      u0107 |-> <<"u0106">>, u0109 |-> <<"u0108">>, u010b |-> <<"u010a">>,
      u010d |-> <<"u010c">>, u010f |-> <<"u010e">>, u0111 |-> <<"u0110">>,
      u0113 |-> <<"u0112">>, u0115 |-> <<"u0114">>, u0117 |-> <<"u0116">>,
      u0119 |-> <<"u0118">>, u011b |-> <<"u011a">>, u011d |-> <<"u011c">>,
      u011f |-> <<"u011e">>, u0121 |-> <<"u0120">>, u0123 |-> <<"u0122">>,
      u0125 |-> <<"u0124">>, u0127 |-> <<"u0126">>, u0129 |-> <<"u0128">>,
      u012b |-> <<"u012a">>, u012d |-> <<"u012c">>, u012f |-> <<"u012e">>,
      u0131 |-> <<"I">>, u0133 |-> <<"u0132">>, u0135 |-> <<"u0134">>,
      u0137 |-> <<"u0136">>, u013a |-> <<"u0139">>, u013c |-> <<"u013b">>,
      u013e |-> <<"u013d">>, u0140 |-> <<"u013f">>, u0142 |-> <<"u0141">>,
      u0144 |-> <<"u0143">>, u0146 |-> <<"u0145">>, u0148 |-> <<"u0147">>,
      u0149 |-> <<"u02bc", "N">>, u014b |-> <<"u014a">>, u014d |-> <<"u014c">>,
      u014f |-> <<"u014e">>, u0151 |-> <<"u0150">>, u0153 |-> <<"u0152">>,
      u0155 |-> <<"u0154">>, u0157 |-> <<"u0156">>, u0159 |-> <<"u0158">>,
      u015b |-> <<"u015a">>, u015d |-> <<"u015c">>, u015f |-> <<"u015e">>,
      u0161 |-> <<"u0160">>, u0163 |-> <<"u0162">>, u0165 |-> <<"u0164">>,
      u0167 |-> <<"u0166">>, u0169 |-> <<"u0168">>, u016b |-> <<"u016a">>,
      u016d |-> <<"u016c">>, u016f |-> <<"u016e">>, u0171 |-> <<"u0170">>,
      u0173 |-> <<"u0172">>, u0175 |-> <<"u0174">>, u0177 |-> <<"u0176">>,
      u017a |-> <<"u0179">>, u017c |-> <<"u017b">>, u017e |-> <<"u017d">>,
      u017f |-> <<"S">>, u0371 |-> <<"u0370">>, u0373 |-> <<"u0372">>,
      u0377 |-> <<"u0376">>, u037b |-> <<"u03fd">>, u037c |-> <<"u03fe">>,
      u037d |-> <<"u03ff">>, u0390 |-> <<"u0399", "u0308", "u0301">>, u03ac |-> <<"u0386">>,
      u03ad |-> <<"u0388">>, u03ae |-> <<"u0389">>, u03af |-> <<"u038a">>,
      u03b0 |-> <<"u03a5", "u0308", "u0301">>, u03b1 |-> <<"u0391">>, u03b2 |-> <<"u0392">>,
      u03b3 |-> <<"u0393">>, u03b4 |-> <<"u0394">>, u03b5 |-> <<"u0395">>,
      u03b6 |-> <<"u0396">>, u03b7 |-> <<"u0397">>, u03b8 |-> <<"u0398">>,
      u03b9 |-> <<"u0399">>, u03ba |-> <<"u039a">>, u03bb |-> <<"u039b">>,
      u03bc |-> <<"u039c">>, u03bd |-> <<"u039d">>, u03be |-> <<"u039e">>,
      u03bf |-> <<"u039f">>, u03c0 |-> <<"u03a0">>, u03c1 |-> <<"u03a1">>,
      u03c2 |-> <<"u03a3">>, u03c3 |-> <<"u03a3">>, u03c4 |-> <<"u03a4">>,
      u03c5 |-> <<"u03a5">>, u03c6 |-> <<"u03a6">>, u03c7 |-> <<"u03a7">>,
      u03c8 |-> <<"u03a8">>, u03c9 |-> <<"u03a9">>, u03ca |-> <<"u03aa">>,
      u03cb |-> <<"u03ab">>, u03cc |-> <<"u038c">>, u03cd |-> <<"u038e">>,
      u03ce |-> <<"u038f">>, u03d0 |-> <<"u0392">>, u03d1 |-> <<"u0398">>,
      u03d5 |-> <<"u03a6">>, u03d6 |-> <<"u03a0">>, u03d7 |-> <<"u03cf">>,
      u03d9 |-> <<"u03d8">>, u03db |-> <<"u03da">>, u03dd |-> <<"u03dc">>,
      u03df |-> <<"u03de">>, u03e1 |-> <<"u03e0">>, u03e3 |-> <<"u03e2">>,
      u03e5 |-> <<"u03e4">>, u03e7 |-> <<"u03e6">>, u03e9 |-> <<"u03e8">>,
      u03eb |-> <<"u03ea">>, u03ed |-> <<"u03ec">>, u03ef |-> <<"u03ee">>,
      u03f0 |-> <<"u039a">>, u03f1 |-> <<"u03a1">>, u03f2 |-> <<"u03f9">>,
      u03f3 |-> <<"u037f">>, u03f5 |-> <<"u0395">>, u03f8 |-> <<"u03f7">>,
      u03fb |-> <<"u03fa">>, u0430 |-> <<"u0410">>, u0431 |-> <<"u0411">>,
      u0432 |-> <<"u0412">>, u0433 |-> <<"u0413">>, u0434 |-> <<"u0414">>,
      u0435 |-> <<"u0415">>, u0436 |-> <<"u0416">>, u0437 |-> <<"u0417">>,
      u0438 |-> <<"u0418">>, u0439 |-> <<"u0419">>, u043a |-> <<"u041a">>,
      u043b |-> <<"u041b">>, u043c |-> <<"u041c">>, u043d |-> <<"u041d">>,
      u043e |-> <<"u041e">>, u043f |-> <<"u041f">>, u0440 |-> <<"u0420">>,
      u0441 |-> <<"u0421">>, u0442 |-> <<"u0422">>, u0443 |-> <<"u0423">>,
      u0444 |-> <<"u0424">>, u0445 |-> <<"u0425">>, u0446 |-> <<"u0426">>,
      u0447 |-> <<"u0427">>, u0448 |-> <<"u0428">>, u0449 |-> <<"u0429">>,
      u044a |-> <<"u042a">>, u044b |-> <<"u042b">>, u044c |-> <<"u042c">>,
      u044d |-> <<"u042d">>, u044e |-> <<"u042e">>, u044f |-> <<"u042f">>,
      u0450 |-> <<"u0400">>, u0451 |-> <<"u0401">>, u0452 |-> <<"u0402">>,
      u0453 |-> <<"u0403">>, u0454 |-> <<"u0404">>, u0455 |-> <<"u0405">>,
      u0456 |-> <<"u0406">>, u0457 |-> <<"u0407">>, u0458 |-> <<"u0408">>,
      u0459 |-> <<"u0409">>, u045a |-> <<"u040a">>, u045b |-> <<"u040b">>,
      u045c |-> <<"u040c">>, u045d |-> <<"u040d">>, u045e |-> <<"u040e">>,
      u045f |-> <<"u040f">>, ufb00 |-> <<"F", "F">>, ufb01 |-> <<"F", "I">>,
      ufb02 |-> <<"F", "L">>, ufb03 |-> <<"F", "F", "I">>, ufb04 |-> <<"F", "F", "L">>,
      ufb05 |-> <<"S", "T">>, ufb06 |-> <<"S", "T">>, u10428 |-> <<"u10400">> ]

\* characters that are cased without having another case
CasedOnly ==
    { "u00aa", "u00ba", "u0138", "u03d2", "u03d3", "u03d4", "u03fc" }

\* characters str.lower() looks past when it decides whether a capital sigma
\* ends a word
CaseIgnorable ==
    { "'", ".", ":", "^", "u0060", "u00a8", "u00ad", "u00af",
      "u00b4", "u00b7", "u00b8", "u02bc", "u0301", "u0307", "u0308", "u0374",
      "u0375", "u037a", "u0384", "u0385", "u0387", "u200b", "u200c", "u200d",
      "u200e", "u200f", "u202a", "u202b", "u202c", "u202d", "u202e", "u2060",
      "u2061", "u2062", "u2063", "u2064", "ufeff", "ue0001" }

IndexIn(c, alphabet) ==
    IF \E i \in 1..Len(alphabet) : alphabet[i] = c
    THEN CHOOSE i \in 1..Len(alphabet) : alphabet[i] = c
    ELSE 0

\* the letters A-Z, the letters a-z
UpperLetters == { UpperChars[i] : i \in 1..Len(UpperChars) }

LowerLetters == { LowerChars[i] : i \in 1..Len(LowerChars) }

\* the characters that have an entry in LowerOf, in UpperOf
LowerKeys == DOMAIN LowerOf

UpperKeys == DOMAIN UpperOf

IsCased(c) ==
    \/ c \in UpperLetters \/ c \in LowerLetters
    \/ c \in LowerKeys \/ c \in UpperKeys \/ c \in CasedOnly

LowerChar(c) ==
    IF c \in UpperLetters THEN <<LowerChars[IndexIn(c, UpperChars)]>>
    ELSE IF c \in LowerKeys THEN LowerOf[c]
    ELSE <<c>>

UpperChar(c) ==
    IF c \in LowerLetters THEN <<UpperChars[IndexIn(c, LowerChars)]>>
    ELSE IF c \in UpperKeys THEN UpperOf[c]
    ELSE <<c>>

RECURSIVE Join(_, _)
\* sep.join(parts)
Join(parts, sep) ==
    IF parts = <<>> THEN <<>>
    ELSE IF Len(parts) = 1 THEN parts[1]
    ELSE parts[1] \o sep \o Join(Tail(parts), sep)

\* the capital sigma at position i ends a word: the nearest character before
\* it that is not looked past is cased, the nearest after it is not
FinalSigma(s, i) ==
    LET before == { j \in 1..(i - 1) : s[j] \notin CaseIgnorable }
        after  == { j \in (i + 1)..Len(s) : s[j] \notin CaseIgnorable }
    IN  /\ before # {}
        /\ IsCased(s[CHOOSE j \in before : \A k \in before : k <= j])
        /\ after = {} \/ ~IsCased(s[CHOOSE j \in after : \A k \in after : j <= k])

\* str.lower()
Lower(s) ==
    IF \E i \in 1..Len(s) : s[i] \notin Chars THEN NoValue(s)
    ELSE Join([i \in 1..Len(s) |->
                 IF s[i] = "u03a3" /\ FinalSigma(s, i) THEN <<"u03c2">>
                 ELSE LowerChar(s[i])], <<>>)

\* str.upper()
Upper(s) ==
    IF \E i \in 1..Len(s) : s[i] \notin Chars THEN NoValue(s)
    ELSE Join([i \in 1..Len(s) |-> UpperChar(s[i])], <<>>)

RECURSIVE LStrip(_)
LStrip(s) ==
    IF s # <<>> /\ Head(s) \in Whitespace THEN LStrip(Tail(s)) ELSE s

RECURSIVE RStrip(_)
RStrip(s) ==
    IF s # <<>> /\ s[Len(s)] \in Whitespace
    THEN RStrip(SubSeq(s, 1, Len(s) - 1))
    ELSE s

\* str.strip()
Strip(s) == RStrip(LStrip(s))

\* s.startswith(p)
StartsWith(s, p) == Len(p) <= Len(s) /\ SubSeq(s, 1, Len(p)) = p

\* s.endswith(p)
EndsWith(s, p) ==
    Len(p) <= Len(s) /\ SubSeq(s, Len(s) - Len(p) + 1, Len(s)) = p

\* p in s
Contains(s, p) ==
    \E i \in 1..(Len(s) - Len(p) + 1) : SubSeq(s, i, i + Len(p) - 1) = p

\* s.split(sep)[0] for a one-character separator
SplitHead(s, sep) ==
    IF \E i \in 1..Len(s) : s[i] = sep
    THEN SubSeq(s, 1, (CHOOSE i \in 1..Len(s) :
                          s[i] = sep /\ \A j \in 1..(i - 1) : s[j] # sep) - 1)
    ELSE s

\* re.split(r'[,\n;]+', s): the pieces between runs of separator characters;
\* a leading or trailing run leaves an empty piece at that end.
Separators == {",", "\n", ";"}

RECURSIVE SplitRuns(_, _, _)
SplitRuns(s, cur, inRun) ==
    IF s = <<>> THEN <<cur>>
    ELSE IF Head(s) \in Separators
         THEN IF inRun THEN SplitRuns(Tail(s), cur, TRUE)
                       ELSE <<cur>> \o SplitRuns(Tail(s), <<>>, TRUE)
         ELSE SplitRuns(Tail(s), Append(cur, Head(s)), FALSE)

re_split(s) == SplitRuns(s, <<>>, FALSE)

SetMax(S) == CHOOSE x \in S : \A y \in S : y <= x

DigitChars == <<"0","1","2","3","4","5","6","7","8","9">>

RECURSIVE NatStr(_)
NatStr(n) ==
    IF n < 10 THEN <<DigitChars[n + 1]>>
    ELSE NatStr(n \div 10) \o <<DigitChars[(n % 10) + 1]>>

\* str(n) for an int
IntStr(n) == IF n < 0 THEN <<"-">> \o NatStr(0 - n) ELSE NatStr(n)

----------------------------------------------------------------------------
(* JSON values and the Python operations the code applies to them.         *)

VStr(s)   == [t |-> "str", s |-> s]
VNum(n)   == [t |-> "num", n |-> n]
VBool(b)  == [t |-> "bool", b |-> b]
VNull     == [t |-> "null"]
VList(xs) == [t |-> "list", items |-> xs]
VDict(ps) == [t |-> "dict", d |-> ps]

\* bool(v): Python truthiness
Truthy(v) ==
    CASE v.t = "str"  -> v.s # <<>>
      [] v.t = "num"  -> v.n # 0
      [] v.t = "bool" -> v.b
      [] v.t = "null" -> FALSE
      [] v.t = "list" -> v.items # <<>>
      [] v.t = "dict" -> v.d # <<>>

\* a or b
PyOr(a, b) == IF Truthy(a) THEN a ELSE b

\* k in d, for a dict given as its sequence of <<key, value>> pairs
HasKey(d, k) == \E i \in 1..Len(d) : d[i][1] = k

\* d.get(k, default)
DictGet(d, k, default) ==
    IF HasKey(d, k) THEN d[CHOOSE i \in 1..Len(d) : d[i][1] = k][2] ELSE default

RECURSIVE DictPop(_, _)
\* d.pop(k, None): the dict without key k, the other entries in place
DictPop(d, k) ==
    IF d = <<>> THEN <<>>
    ELSE IF Head(d)[1] = k THEN DictPop(Tail(d), k)
    ELSE <<Head(d)>> \o DictPop(Tail(d), k)

\* The characters of a dictionary key, for repr() of a dict.
KeyChars(k) ==
    CASE k = "url"      -> <<"u", "r", "l">>
      [] k = "file_url" -> <<"f", "i", "l", "e", "_", "u", "r", "l">>
      [] k = "src"      -> <<"s", "r", "c">>
      [] k = "tmp_url"  -> <<"t", "m", "p", "_", "u", "r", "l">>
      [] k = "name"     -> <<"n", "a", "m", "e">>

\* what repr() writes for a character that str.isprintable() rejects
ReprEscapes ==
    { <<"\t", <<"\\", "t">>>>, <<"\n", <<"\\", "n">>>>,
      <<"\r", <<"\\", "r">>>>, <<"\f", <<"\\", "x", "0", "c">>>>,
      <<"u0000", <<"\\", "x", "0", "0">>>>, <<"u0001", <<"\\", "x", "0", "1">>>>,
      <<"u0002", <<"\\", "x", "0", "2">>>>, <<"u0003", <<"\\", "x", "0", "3">>>>,
      <<"u0004", <<"\\", "x", "0", "4">>>>, <<"u0005", <<"\\", "x", "0", "5">>>>,
      <<"u0006", <<"\\", "x", "0", "6">>>>, <<"u0007", <<"\\", "x", "0", "7">>>>,
      <<"u0008", <<"\\", "x", "0", "8">>>>, <<"u000b", <<"\\", "x", "0", "b">>>>,
      <<"u000e", <<"\\", "x", "0", "e">>>>, <<"u000f", <<"\\", "x", "0", "f">>>>,
      <<"u0010", <<"\\", "x", "1", "0">>>>, <<"u0011", <<"\\", "x", "1", "1">>>>,
      <<"u0012", <<"\\", "x", "1", "2">>>>, <<"u0013", <<"\\", "x", "1", "3">>>>,
      <<"u0014", <<"\\", "x", "1", "4">>>>, <<"u0015", <<"\\", "x", "1", "5">>>>,
      <<"u0016", <<"\\", "x", "1", "6">>>>, <<"u0017", <<"\\", "x", "1", "7">>>>,
      <<"u0018", <<"\\", "x", "1", "8">>>>, <<"u0019", <<"\\", "x", "1", "9">>>>,
      <<"u001a", <<"\\", "x", "1", "a">>>>, <<"u001b", <<"\\", "x", "1", "b">>>>,
      <<"u001c", <<"\\", "x", "1", "c">>>>, <<"u001d", <<"\\", "x", "1", "d">>>>,
      <<"u001e", <<"\\", "x", "1", "e">>>>, <<"u001f", <<"\\", "x", "1", "f">>>>,
      <<"u007f", <<"\\", "x", "7", "f">>>>, <<"u0080", <<"\\", "x", "8", "0">>>>,
      <<"u0081", <<"\\", "x", "8", "1">>>>, <<"u0082", <<"\\", "x", "8", "2">>>>,
      <<"u0083", <<"\\", "x", "8", "3">>>>, <<"u0084", <<"\\", "x", "8", "4">>>>,
      <<"u0085", <<"\\", "x", "8", "5">>>>, <<"u0086", <<"\\", "x", "8", "6">>>>,
      <<"u0087", <<"\\", "x", "8", "7">>>>, <<"u0088", <<"\\", "x", "8", "8">>>>,
      <<"u0089", <<"\\", "x", "8", "9">>>>, <<"u008a", <<"\\", "x", "8", "a">>>>,
      <<"u008b", <<"\\", "x", "8", "b">>>>, <<"u008c", <<"\\", "x", "8", "c">>>>,
      <<"u008d", <<"\\", "x", "8", "d">>>>, <<"u008e", <<"\\", "x", "8", "e">>>>,
      <<"u008f", <<"\\", "x", "8", "f">>>>, <<"u0090", <<"\\", "x", "9", "0">>>>,
      <<"u0091", <<"\\", "x", "9", "1">>>>, <<"u0092", <<"\\", "x", "9", "2">>>>,
      <<"u0093", <<"\\", "x", "9", "3">>>>, <<"u0094", <<"\\", "x", "9", "4">>>>,
      <<"u0095", <<"\\", "x", "9", "5">>>>, <<"u0096", <<"\\", "x", "9", "6">>>>,
      <<"u0097", <<"\\", "x", "9", "7">>>>, <<"u0098", <<"\\", "x", "9", "8">>>>,
      <<"u0099", <<"\\", "x", "9", "9">>>>, <<"u009a", <<"\\", "x", "9", "a">>>>,
      <<"u009b", <<"\\", "x", "9", "b">>>>, <<"u009c", <<"\\", "x", "9", "c">>>>,
      <<"u009d", <<"\\", "x", "9", "d">>>>, <<"u009e", <<"\\", "x", "9", "e">>>>,
      <<"u009f", <<"\\", "x", "9", "f">>>>, <<"u00a0", <<"\\", "x", "a", "0">>>>,
      <<"u00ad", <<"\\", "x", "a", "d">>>>, <<"u0378", <<"\\", "u", "0", "3", "7", "8">>>>,
      <<"u0379", <<"\\", "u", "0", "3", "7", "9">>>>, <<"u0380", <<"\\", "u", "0", "3", "8", "0">>>>,
      <<"u0381", <<"\\", "u", "0", "3", "8", "1">>>>, <<"u0382", <<"\\", "u", "0", "3", "8", "2">>>>,
      <<"u0383", <<"\\", "u", "0", "3", "8", "3">>>>, <<"u038b", <<"\\", "u", "0", "3", "8", "b">>>>,
      <<"u038d", <<"\\", "u", "0", "3", "8", "d">>>>, <<"u03a2", <<"\\", "u", "0", "3", "a", "2">>>>,
      <<"u1680", <<"\\", "u", "1", "6", "8", "0">>>>, <<"u2000", <<"\\", "u", "2", "0", "0", "0">>>>,
      <<"u2001", <<"\\", "u", "2", "0", "0", "1">>>>, <<"u2002", <<"\\", "u", "2", "0", "0", "2">>>>,
      <<"u2003", <<"\\", "u", "2", "0", "0", "3">>>>, <<"u2004", <<"\\", "u", "2", "0", "0", "4">>>>,
      <<"u2005", <<"\\", "u", "2", "0", "0", "5">>>>, <<"u2006", <<"\\", "u", "2", "0", "0", "6">>>>,
      <<"u2007", <<"\\", "u", "2", "0", "0", "7">>>>, <<"u2008", <<"\\", "u", "2", "0", "0", "8">>>>,
      <<"u2009", <<"\\", "u", "2", "0", "0", "9">>>>, <<"u200a", <<"\\", "u", "2", "0", "0", "a">>>>,
      <<"u200b", <<"\\", "u", "2", "0", "0", "b">>>>, <<"u200c", <<"\\", "u", "2", "0", "0", "c">>>>,
      <<"u200d", <<"\\", "u", "2", "0", "0", "d">>>>, <<"u200e", <<"\\", "u", "2", "0", "0", "e">>>>,
      <<"u200f", <<"\\", "u", "2", "0", "0", "f">>>>, <<"u2028", <<"\\", "u", "2", "0", "2", "8">>>>,
      <<"u2029", <<"\\", "u", "2", "0", "2", "9">>>>, <<"u202a", <<"\\", "u", "2", "0", "2", "a">>>>,
      <<"u202b", <<"\\", "u", "2", "0", "2", "b">>>>, <<"u202c", <<"\\", "u", "2", "0", "2", "c">>>>,
      <<"u202d", <<"\\", "u", "2", "0", "2", "d">>>>, <<"u202e", <<"\\", "u", "2", "0", "2", "e">>>>,
      <<"u202f", <<"\\", "u", "2", "0", "2", "f">>>>, <<"u205f", <<"\\", "u", "2", "0", "5", "f">>>>,
      <<"u2060", <<"\\", "u", "2", "0", "6", "0">>>>, <<"u2061", <<"\\", "u", "2", "0", "6", "1">>>>,
      <<"u2062", <<"\\", "u", "2", "0", "6", "2">>>>, <<"u2063", <<"\\", "u", "2", "0", "6", "3">>>>,
      <<"u2064", <<"\\", "u", "2", "0", "6", "4">>>>, <<"u3000", <<"\\", "u", "3", "0", "0", "0">>>>,
      <<"ud800", <<"\\", "u", "d", "8", "0", "0">>>>, <<"udbff", <<"\\", "u", "d", "b", "f", "f">>>>,
      <<"udc00", <<"\\", "u", "d", "c", "0", "0">>>>, <<"udfff", <<"\\", "u", "d", "f", "f", "f">>>>,
      <<"ue000", <<"\\", "u", "e", "0", "0", "0">>>>, <<"ufeff", <<"\\", "u", "f", "e", "f", "f">>>>,
      <<"ufffe", <<"\\", "u", "f", "f", "f", "e">>>>, <<"uffff", <<"\\", "u", "f", "f", "f", "f">>>>,
      <<"ue0001", <<"\\", "U", "0", "0", "0", "e", "0", "0", "0", "1">>>>, <<"u10ffff", <<"\\", "U", "0", "0", "1", "0", "f", "f", "f", "f">>>> }

\* the escape a table of pairs holds for c, or c itself
EscapeIn(table, c) ==
    IF \E p \in table : p[1] = c
    THEN (CHOOSE p \in table : p[1] = c)[2]
    ELSE <<c>>

\* repr() of one character of a str between quotes q
ReprChar(c, q) ==
    IF c = "\\" THEN <<"\\", "\\">>
    ELSE IF c = q THEN <<"\\", c>>
    ELSE EscapeIn(ReprEscapes, c)

\* repr() of a str: double quotes when it holds a single quote and no double
\* quote, single quotes otherwise
ReprStr(s) ==
    LET q == IF (\E i \in 1..Len(s) : s[i] = "'") /\ ~(\E i \in 1..Len(s) : s[i] = "\"")
             THEN "\"" ELSE "'"
    IN  IF \E i \in 1..Len(s) : s[i] \notin Chars THEN NoValue(s)
        ELSE <<q>> \o Join([i \in 1..Len(s) |-> ReprChar(s[i], q)], <<>>) \o <<q>>

RECURSIVE PyRepr(_)
\* repr(v)
PyRepr(v) ==
    CASE v.t = "str"  -> ReprStr(v.s)
      [] v.t = "num"  -> IntStr(v.n)
      [] v.t = "bool" -> IF v.b THEN S_True ELSE S_False
      [] v.t = "null" -> S_None
      [] v.t = "list" ->
            <<"[">> \o Join([i \in 1..Len(v.items) |-> PyRepr(v.items[i])], <<",", " ">>)
                    \o <<"]">>
      [] v.t = "dict" ->
            <<"{">> \o Join([i \in 1..Len(v.d) |->
                               <<"'">> \o KeyChars(v.d[i][1]) \o <<"'", ":", " ">>
                                       \o PyRepr(v.d[i][2])],
                            <<",", " ">>)
                    \o <<"}">>

\* str(v)
PyStr(v) == IF v.t = "str" THEN v.s ELSE PyRepr(v)

----------------------------------------------------------------------------
(* Configuration (config.py).                                              *)

\* TapdConfig.workspace_id
workspace_id == S_workspace_id

\* FieldMappingConfig.story_field_mapping
story_field_mapping ==
    [ biaoti |-> "name", mingcheng |-> "name", xuqiumingcheng |-> "name",
      miaoshu |-> "description", xiangximiaoshu |-> "description",
      chuliren |-> "owner", fuzeren |-> "owner", chuangjianren |-> "creator",
      youxianji |-> "priority_label", biaoqianleixing |-> "label",
      biaoqian |-> "label", xuqiuleibie |-> "workitem_type_id",
      diedai |-> "iteration_id", banben |-> "version", mokuai |-> "module",
      yujikaishi |-> "begin", yujijieshu |-> "due",
      tupian |-> "_images", jietu |-> "_images", fujiantupian |-> "_images" ]

\* FieldMappingConfig.bug_field_mapping
bug_field_mapping ==
    [ biaoti |-> "title", quexianbiaoti |-> "title",
      miaoshu |-> "description", xiangximiaoshu |-> "description",
      chuliren |-> "current_owner", fuzeren |-> "current_owner",
      dangqianchuliren |-> "current_owner",
      chuangjianren |-> "reporter", baogaoren |-> "reporter",
      youxianji |-> "priority_label", yanzhongchengdu |-> "severity",
      biaoqian |-> "label", diedai |-> "iteration_id",
      banben |-> "version_report", faxianbanben |-> "version_report",
      mokuai |-> "module", yujikaishi |-> "begin", yujijieshu |-> "due",
      tupian |-> "_images", jietu |-> "_images", fujiantupian |-> "_images" ]

\* mutant: the allow-list also takes the caller's workspace_id verbatim
story_native_fields_with_workspace ==
    { "name", "description", "owner", "priority", "priority_label",
      "iteration_id", "workitem_type_id", "module", "version", "label",
      "begin", "due", "workspace_id" }

\* the canonical TAPD keys map_story_fields accepts verbatim
story_native_fields ==
    { "name", "description", "owner", "priority", "priority_label",
      "iteration_id", "workitem_type_id", "module", "version", "label",
      "begin", "due" }

\* the canonical TAPD keys map_bug_fields accepts verbatim
bug_native_fields ==
    { "title", "description", "current_owner", "priority", "priority_label",
      "severity", "iteration_id", "module", "version_report", "label",
      "begin", "due" }

\* FieldMappingConfig.priority_mapping, as <<key, value>> pairs
priority_mapping ==
    { <<<<"jin3", "ji2">>, <<"u", "r", "g", "e", "n", "t">>>>,
      <<<<"gao">>, <<"h", "i", "g", "h">>>>,
      <<<<"zhong">>, <<"m", "i", "d", "d", "l", "e">>>>,
      <<<<"di">>, <<"l", "o", "w">>>>,
      <<<<"wu", "guan", "jin3", "yao">>, <<"i", "n", "s", "i", "g", "n", "i", "f", "i", "c", "a", "n", "t">>>>,
      <<<<"1">>, <<"u", "r", "g", "e", "n", "t">>>>,
      <<<<"2">>, <<"h", "i", "g", "h">>>>,
      <<<<"3">>, <<"m", "i", "d", "d", "l", "e">>>>,
      <<<<"4">>, <<"l", "o", "w">>>> }

\* FieldMappingConfig.severity_mapping, as <<key, value>> pairs
severity_mapping ==
    { <<<<"zhi", "ming4">>, <<"f", "a", "t", "a", "l">>>>,
      <<<<"yan", "zhong4">>, <<"s", "e", "r", "i", "o", "u", "s">>>>,
      <<<<"yi", "ban">>, <<"g", "e", "n", "e", "r", "a", "l">>>>,
      <<<<"ti2", "shi">>, <<"p", "r", "o", "m", "p", "t">>>>,
      <<<<"jian", "yi4">>, <<"a", "d", "v", "i", "c", "e">>>> }

\* WorkitemTypeMapping.label_to_type_id, as <<key, value>> pairs
label_to_type_id ==
    { <<<<"F", "X">>, <<"1", "1", "4", "1", "8", "2", "7", "9", "9", "7", "0", "0", "1", "0", "0", "1", "4", "6", "0">>>>,
      <<<<"P", "R", "E", "F", "A", "B">>, <<"1", "1", "4", "1", "8", "2", "7", "9", "9", "7", "0", "0", "1", "0", "0", "1", "4", "5", "9">>>>,
      <<<<"D", "D">>, <<"1", "1", "4", "1", "8", "2", "7", "9", "9", "7", "0", "0", "1", "0", "0", "1", "4", "5", "3">>>>,
      <<<<"Q", "A">>, <<"1", "1", "4", "1", "8", "2", "7", "9", "9", "7", "0", "0", "1", "0", "0", "1", "4", "5", "2">>>>,
      <<<<"U", "I">>, <<"1", "1", "4", "1", "8", "2", "7", "9", "9", "7", "0", "0", "1", "0", "0", "1", "4", "5", "1">>>>,
      <<<<"D", "I", "R", "E", "C", "T", "O", "R">>, <<"1", "1", "4", "1", "8", "2", "7", "9", "9", "7", "0", "0", "1", "0", "0", "1", "4", "5", "0">>>>,
      <<<<"W", "R", "I", "T", "E", "R">>, <<"1", "1", "4", "1", "8", "2", "7", "9", "9", "7", "0", "0", "1", "0", "0", "1", "4", "4", "9">>>>,
      <<<<"A", "u", "d", "i", "o">>, <<"1", "1", "4", "1", "8", "2", "7", "9", "9", "7", "0", "0", "1", "0", "0", "1", "4", "4", "2">>>>,
      <<<<"A", "U", "D", "I", "O">>, <<"1", "1", "4", "1", "8", "2", "7", "9", "9", "7", "0", "0", "1", "0", "0", "1", "4", "4", "2">>>>,
      <<<<"C", "G">>, <<"1", "1", "4", "1", "8", "2", "7", "9", "9", "7", "0", "0", "1", "0", "0", "1", "4", "4", "1">>>>,
      <<<<"A", "R", "T", "S">>, <<"1", "1", "4", "1", "8", "2", "7", "9", "9", "7", "0", "0", "1", "0", "0", "1", "4", "4", "0">>>>,
      <<<<"A", "S", "S", "E", "T">>, <<"1", "1", "4", "1", "8", "2", "7", "9", "9", "7", "0", "0", "1", "0", "0", "1", "4", "3", "9">>>>,
      <<<<"E", "X", "C", "E", "L">>, <<"1", "1", "4", "1", "8", "2", "7", "9", "9", "7", "0", "0", "1", "0", "0", "1", "4", "3", "8">>>>,
      <<<<"P", "r", "o", "g", "r", "a", "m">>, <<"1", "1", "4", "1", "8", "2", "7", "9", "9", "7", "0", "0", "1", "0", "0", "1", "4", "3", "7">>>>,
      <<<<"P", "R", "O", "G", "R", "A", "M">>, <<"1", "1", "4", "1", "8", "2", "7", "9", "9", "7", "0", "0", "1", "0", "0", "1", "4", "3", "7">>>>,
      <<<<"F", "E", "A", "T", "U", "R", "E">>, <<"1", "1", "4", "1", "8", "2", "7", "9", "9", "7", "0", "0", "1", "0", "0", "1", "4", "3", "6">>>>,
      <<<<"E", "p", "i", "c">>, <<"1", "1", "4", "1", "8", "2", "7", "9", "9", "7", "0", "0", "1", "0", "0", "1", "4", "3", "5">>>> }

\* k in table
TableHas(table, k) == \E p \in table : p[1] = k

\* table[k]
TableGet(table, k) == (CHOOSE p \in table : p[1] = k)[2]

\* the value set of a vocabulary table
TableValues(table) == { p[2] : p \in table }

\* mutant: a label the table does not know is its own identifier
get_type_id_echo(label) ==
    IF label = <<>> THEN <<>>
    ELSE IF TableHas(label_to_type_id, label) THEN TableGet(label_to_type_id, label)
    ELSE IF TableHas(label_to_type_id, Upper(label))
         THEN TableGet(label_to_type_id, Upper(label))
    ELSE label

\* WorkitemTypeMapping.get_type_id; <<>> stands for None (no identifier is empty)
get_type_id(label) ==
    IF label = <<>> THEN <<>>
    ELSE IF TableHas(label_to_type_id, label) THEN TableGet(label_to_type_id, label)
    ELSE IF TableHas(label_to_type_id, Upper(label))
         THEN TableGet(label_to_type_id, Upper(label))
    ELSE <<>>

----------------------------------------------------------------------------
(* FeishuWebhookHandler.parse_feishu_request (webhook_service.py).         *)

\* the keys the classifier strips from the working record
type_fields == <<"ticket_type", "type", "leixing">>

story_synonyms == {S_story, S_xuqiu, S_xuqiudan, S_requirement}
bug_synonyms   == {S_bug, S_quexian, S_quexiandan, S_defect}
task_synonyms  == {S_task, S_renwu, S_renwudan}

\* mutant: an envelope without hint falls back to the inner record's type label
raw_ticket_type_inner(b) ==
    LET rec == DictGet(b, "record", VNull)
        d   == IF rec.t = "dict" THEN rec.d ELSE b
    IN  DictGet(b, "ticket_type",
                DictGet(b, "type", DictGet(d, "leixing", VStr(S_story))))

\* the type hint read from the payload (lines 115-120); b is the payload's pairs
raw_ticket_type(b) ==
    IF HasKey(b, "record")
    THEN DictGet(b, "ticket_type", DictGet(b, "type", VStr(S_story)))
    ELSE DictGet(b, "ticket_type",
                 DictGet(b, "type", DictGet(b, "leixing", VStr(S_story))))

\* the record the classifier works on (lines 115-119), before the type keys go
raw_record(b) == IF HasKey(b, "record") THEN DictGet(b, "record", VNull) ELSE VDict(b)

\* the else-branch of the normalisation (lines 131-135) on a dict record
infer_ticket_type(rec) ==
    IF HasKey(rec, "biaoti") \/ HasKey(rec, "title") THEN "bug" ELSE "story"

\* lines 123-135
normalize_ticket_type(h, rec) ==
    LET ticket_type_lower == Lower(PyStr(h)) IN
    IF ticket_type_lower \in story_synonyms THEN "story"
    ELSE IF ticket_type_lower \in bug_synonyms THEN "bug"
    ELSE IF ticket_type_lower \in task_synonyms THEN "task"
    ELSE infer_ticket_type(rec)

\* mutant: the localized type label is left in the record
strip_type_fields_latin(rec) ==
    DictPop(DictPop(rec, "ticket_type"), "type")

\* lines 138-139
strip_type_fields(rec) ==
    DictPop(DictPop(DictPop(rec, type_fields[1]), type_fields[2]), type_fields[3])

\* the payload object once parse_feishu_request has returned: lines 137-139
\* pop the type keys from record_data, which is the payload itself or the
\* object under its "record" key
payload_after_parse(b) ==
    IF HasKey(b, "record")
    THEN [i \in 1..Len(b) |->
            IF b[i][1] = "record" /\ b[i][2].t = "dict"
            THEN <<"record", VDict(strip_type_fields(b[i][2].d))>>
            ELSE b[i]]
    ELSE strip_type_fields(b)

\* parse_feishu_request(body).  A record that is not a dict makes the call raise:
\* the membership test of line 132 raises TypeError on None, a number or a bool,
\* and record_data.pop(type_field, None) of line 139 raises on a str (no pop) and
\* on a list (pop takes one argument); no path returns.
parse_feishu_request(b) ==
    LET rec == raw_record(b)
        h   == raw_ticket_type(b)
    IN  IF rec.t # "dict"
        THEN [raised |-> TRUE, hint |-> h, ticket_type |-> "", record_data |-> rec]
        ELSE [raised |-> FALSE, hint |-> h,
              ticket_type |-> normalize_ticket_type(h, rec.d),
              record_data |-> VDict(strip_type_fields(rec.d))]

----------------------------------------------------------------------------
(* FieldMapper (field_mapper.py).                                          *)

\* FieldMapper._is_image_url on a str
\* lines 177-178: an image extension at the end, or "image" anywhere
has_image_name(lower_url) ==
    (\E ext \in image_extensions : EndsWith(lower_url, ext))
        \/ Contains(lower_url, S_image)

_is_image_url(url) ==
    IF ~(StartsWith(url, S_http) \/ StartsWith(url, S_https)) THEN FALSE
    ELSE has_image_name(SplitHead(Lower(url), "?"))

\* `url and self._is_image_url(url)` (lines 161, 166) for any value: a falsy
\* value is dropped, a str is tested, anything else has no startswith and raises.
NoUrls == [raised |-> FALSE, urls |-> <<>>]
Raised == [raised |-> TRUE, urls |-> <<>>]

url_if_image(v) ==
    IF ~Truthy(v) THEN NoUrls
    ELSE IF v.t # "str" THEN Raised
    ELSE IF _is_image_url(v.s) THEN [raised |-> FALSE, urls |-> <<v.s>>]
    ELSE NoUrls

\* item.get('url') or item.get('file_url') or item.get('src')  (lines 160, 165)
attachment_url(d) ==
    PyOr(PyOr(DictGet(d, "url", VNull), DictGet(d, "file_url", VNull)),
         DictGet(d, "src", VNull))

\* one element of a list value (lines 155-162)
extract_from_item(item) ==
    IF item.t = "str"
    THEN IF _is_image_url(item.s) THEN [raised |-> FALSE, urls |-> <<item.s>>] ELSE NoUrls
    ELSE IF item.t = "dict" THEN url_if_image(attachment_url(item.d))
    ELSE NoUrls

\* the urls of an element and of the elements after it; a raise ends the loop
urls_of_both(first, rest) ==
    IF first.raised \/ rest.raised THEN Raised
    ELSE [raised |-> FALSE, urls |-> first.urls \o rest.urls]

RECURSIVE extract_from_list(_)
\* the loop of lines 154-162; the first raising element ends it
extract_from_list(items) ==
    IF items = <<>> THEN NoUrls
    ELSE urls_of_both(extract_from_item(Head(items)), extract_from_list(Tail(items)))

RECURSIVE extract_from_parts(_)
\* the loop of lines 148-151 over the pieces of a split string
extract_from_parts(parts) ==
    IF parts = <<>> THEN <<>>
    ELSE LET url == Strip(Head(parts)) IN
         (IF url # <<>> /\ _is_image_url(url) THEN <<url>> ELSE <<>>)
            \o extract_from_parts(Tail(parts))

\* FieldMapper._extract_image_urls
_extract_image_urls(value) ==
    CASE value.t = "str"  -> [raised |-> FALSE, urls |-> extract_from_parts(re_split(value.s))]
      [] value.t = "list" -> extract_from_list(value.items)
      [] value.t = "dict" -> url_if_image(attachment_url(value.d))
      [] OTHER            -> NoUrls

\* mutant: the lookup without the trim
_map_priority_unstripped(value) ==
    IF TableHas(priority_mapping, value) THEN TableGet(priority_mapping, value) ELSE value

\* FieldMapper._map_priority
_map_priority(value) ==
    LET v == Strip(value) IN
    IF TableHas(priority_mapping, v) THEN TableGet(priority_mapping, v) ELSE v

\* FieldMapper._map_severity
_map_severity(value) ==
    LET v == Strip(value) IN
    IF TableHas(severity_mapping, v) THEN TableGet(severity_mapping, v) ELSE v

RECURSIVE TruthyItems(_)
\* (v for v in value if v)
TruthyItems(items) ==
    IF items = <<>> THEN <<>>
    ELSE (IF Truthy(Head(items)) THEN <<Head(items)>> ELSE <<>>)
            \o TruthyItems(Tail(items))

\* FieldMapper._clean_value
_clean_value(value) ==
    CASE value.t = "str" -> Strip(value.s)
      [] value.t \in {"num", "bool"} -> PyStr(value)
      [] value.t = "list" ->
            IF Len(value.items) = 1 THEN Strip(PyStr(value.items[1]))
            ELSE LET kept == TruthyItems(value.items) IN
                 Join([i \in 1..Len(kept) |-> Strip(PyStr(kept[i]))], <<"|">>)
      [] OTHER -> PyStr(value)

\* mutant: tapd_data.setdefault(key, val), the first value for a key stays
DictSet_setdefault(data, key, val) ==
    [k \in (DOMAIN data) \cup {key} |-> IF k \in DOMAIN data THEN data[k] ELSE val]

\* tapd_data[key] = val
DictSet(data, key, val) ==
    [k \in (DOMAIN data) \cup {key} |-> IF k = key THEN val ELSE data[k]]

EmptyData == [k \in {} |-> <<>>]

\* the state of a mapping pass: the two locals of lines 27-28, and whether an
\* exception has left the loop
MapStart == [raised |-> FALSE, tapd_data |-> EmptyData, image_urls |-> <<>>]

\* mutant: a label the table does not know is used verbatim, whatever it is
story_target_verbatim(feishu_field) ==
    IF feishu_field \in DOMAIN story_field_mapping THEN story_field_mapping[feishu_field]
    ELSE feishu_field

\* lines 35-44: the target key of a label, "" when the entry is discarded
story_target(feishu_field) ==
    IF feishu_field \in DOMAIN story_field_mapping THEN story_field_mapping[feishu_field]
    ELSE IF feishu_field \in story_native_fields THEN feishu_field
    ELSE ""

\* lines 89-98
bug_target(feishu_field) ==
    IF feishu_field \in DOMAIN bug_field_mapping THEN bug_field_mapping[feishu_field]
    ELSE IF feishu_field \in bug_native_fields THEN feishu_field
    ELSE ""

\* value is None or value == ""  (lines 31, 85)
is_skipped(value) == value.t = "null" \/ (value.t = "str" /\ value.s = <<>>)

\* image_urls.extend(urls) (lines 49-50, 102-103); a raise inside
\* _extract_image_urls leaves the mapping pass
add_image_urls(acc, got) ==
    IF got.raised THEN [acc EXCEPT !.raised = TRUE]
    ELSE [acc EXCEPT !.image_urls = acc.image_urls \o got.urls]

\* mutant: the category rule does not end the iteration (no `continue` at
\* line 65), so the entry is stored under its field-table target as well
map_story_entry_falls_through(acc, feishu_field, value) ==
    LET tapd_field == story_target(feishu_field) IN
    IF acc.raised \/ is_skipped(value) \/ tapd_field = "" THEN acc
    ELSE IF tapd_field = "_images"
    THEN add_image_urls(acc, _extract_image_urls(value))
    ELSE LET value1 == IF tapd_field \in {"priority", "priority_label"}
                       THEN VStr(_map_priority(PyStr(value)))
                       ELSE value
             type_id == get_type_id(PyStr(value1))
             category == feishu_field = "biaoqianleixing" \/ feishu_field = "xuqiuleibie"
             data1 == IF category /\ type_id # <<>>
                      THEN DictSet(acc.tapd_data, "workitem_type_id", type_id)
                      ELSE acc.tapd_data
             data2 == IF category /\ "label" \notin DOMAIN data1
                      THEN DictSet(data1, "label", PyStr(value1))
                      ELSE data1
         IN  [acc EXCEPT !.tapd_data = DictSet(data2, tapd_field, _clean_value(value1))]

\* mutant: the category text replaces a label that is already there
map_story_entry_label_overwrite(acc, feishu_field, value) ==
    LET tapd_field == story_target(feishu_field) IN
    IF acc.raised \/ is_skipped(value) \/ tapd_field = "" THEN acc
    ELSE IF tapd_field = "_images"
    THEN add_image_urls(acc, _extract_image_urls(value))
    ELSE LET value1 == IF tapd_field \in {"priority", "priority_label"}
                       THEN VStr(_map_priority(PyStr(value)))
                       ELSE value
         IN  IF feishu_field = "biaoqianleixing" \/ feishu_field = "xuqiuleibie"
             THEN LET type_id == get_type_id(PyStr(value1))
                      data1 == IF type_id # <<>>
                               THEN DictSet(acc.tapd_data, "workitem_type_id", type_id)
                               ELSE acc.tapd_data
                  IN  [acc EXCEPT !.tapd_data = DictSet(data1, "label", PyStr(value1))]
             ELSE [acc EXCEPT !.tapd_data =
                        DictSet(acc.tapd_data, tapd_field, _clean_value(value1))]

\* one iteration of the loop of map_story_fields (lines 30-67)
map_story_entry(acc, feishu_field, value) ==
    LET tapd_field == story_target(feishu_field) IN
    IF acc.raised \/ is_skipped(value) \/ tapd_field = "" THEN acc
    ELSE IF tapd_field = "_images"
    THEN add_image_urls(acc, _extract_image_urls(value))
    ELSE LET value1 == IF tapd_field \in {"priority", "priority_label"}
                       THEN VStr(_map_priority(PyStr(value)))
                       ELSE value
         IN  IF feishu_field = "biaoqianleixing" \/ feishu_field = "xuqiuleibie"
             THEN LET type_id == get_type_id(PyStr(value1))
                      data1 == IF type_id # <<>>
                               THEN DictSet(acc.tapd_data, "workitem_type_id", type_id)
                               ELSE acc.tapd_data
                      data2 == IF "label" \notin DOMAIN data1
                               THEN DictSet(data1, "label", PyStr(value1))
                               ELSE data1
                  IN  [acc EXCEPT !.tapd_data = data2]
             ELSE [acc EXCEPT !.tapd_data =
                        DictSet(acc.tapd_data, tapd_field, _clean_value(value1))]

\* mutant: the image branch does not end the iteration (no `continue`)
map_bug_entry_keeps_marker(acc, feishu_field, value) ==
    LET tapd_field == bug_target(feishu_field) IN
    IF acc.raised \/ is_skipped(value) \/ tapd_field = "" THEN acc
    ELSE LET got == IF tapd_field = "_images" THEN _extract_image_urls(value) ELSE NoUrls
             value1 == IF tapd_field \in {"priority", "priority_label"}
                       THEN VStr(_map_priority(PyStr(value)))
                       ELSE value
             value2 == IF tapd_field = "severity"
                       THEN VStr(_map_severity(PyStr(value1)))
                       ELSE value1
         IN  IF got.raised THEN [acc EXCEPT !.raised = TRUE]
             ELSE [acc EXCEPT !.image_urls = acc.image_urls \o got.urls,
                              !.tapd_data =
                                  DictSet(acc.tapd_data, tapd_field, _clean_value(value2))]

\* one iteration of the loop of map_bug_fields (lines 84-114)
map_bug_entry(acc, feishu_field, value) ==
    LET tapd_field == bug_target(feishu_field) IN
    IF acc.raised \/ is_skipped(value) \/ tapd_field = "" THEN acc
    ELSE IF tapd_field = "_images"
    THEN add_image_urls(acc, _extract_image_urls(value))
    ELSE LET value1 == IF tapd_field \in {"priority", "priority_label"}
                       THEN VStr(_map_priority(PyStr(value)))
                       ELSE value
             value2 == IF tapd_field = "severity"
                       THEN VStr(_map_severity(PyStr(value1)))
                       ELSE value1
         IN  [acc EXCEPT !.tapd_data =
                    DictSet(acc.tapd_data, tapd_field, _clean_value(value2))]

RECURSIVE map_story_loop(_, _)
map_story_loop(acc, entries) ==
    IF entries = <<>> THEN acc
    ELSE map_story_loop(map_story_entry(acc, Head(entries)[1], Head(entries)[2]),
                        Tail(entries))

RECURSIVE map_bug_loop(_, _)
map_bug_loop(acc, entries) ==
    IF entries = <<>> THEN acc
    ELSE map_bug_loop(map_bug_entry(acc, Head(entries)[1], Head(entries)[2]),
                      Tail(entries))

\* FieldMapper.map_story_fields(feishu_data), feishu_data the record's pairs
map_story_fields(feishu_data) == map_story_loop(MapStart, feishu_data)

\* FieldMapper.map_bug_fields(feishu_data)
map_bug_fields(feishu_data) == map_bug_loop(MapStart, feishu_data)

----------------------------------------------------------------------------
(* TicketBuilder (field_mapper.py).                                        *)

\* one block of TicketBuilder._images_to_html (lines 281-284), max_width "800px"
image_block(i, url) ==
    S_img_p_open \o IntStr(i) \o S_img_p_close
        \o S_img_src \o url \o S_img_alt \o IntStr(i)
        \o S_img_style \o S_max_width \o S_img_end

\* TicketBuilder._images_to_html
_images_to_html(image_urls) ==
    Join([i \in 1..Len(image_urls) |-> image_block(i, image_urls[i])], S_br)

\* lines 226-232 / 261-267: the description with the images embedded
\* mutant: one line-break between the description and the images
embed_images_single_break(tapd_data, image_urls) ==
    LET description == IF "description" \in DOMAIN tapd_data
                       THEN tapd_data["description"] ELSE <<>>
        img_html == _images_to_html(image_urls)
    IN  IF description # <<>>
        THEN DictSet(tapd_data, "description", description \o S_br \o img_html)
        ELSE DictSet(tapd_data, "description", img_html)

embed_images(tapd_data, image_urls) ==
    LET description == IF "description" \in DOMAIN tapd_data
                       THEN tapd_data["description"] ELSE <<>>
        img_html == _images_to_html(image_urls)
    IN  IF description # <<>>
        THEN DictSet(tapd_data, "description", description \o S_brbr \o img_html)
        ELSE DictSet(tapd_data, "description", img_html)

\* What a build did.  status: "ok" (returned), "ValueError" (the mandatory-field
\* check raised), "Exception" (the mapping pass raised), "none" (no build ran).
\* mapped / image_urls are the mapper's two results, tapd_fields the finished fields.
NotBuilt ==
    [status |-> "none", mapped |-> EmptyData, image_urls |-> <<>>, tapd_fields |-> EmptyData]

\* mutant: the mandatory-field check is missing
finish_build_unchecked(m, required, include_images_in_description) ==
    IF m.raised
    THEN [NotBuilt EXCEPT !.status = "Exception"]
    ELSE LET with_ws == DictSet(m.tapd_data, "workspace_id", workspace_id) IN
         [status |-> "ok", mapped |-> m.tapd_data, image_urls |-> m.image_urls,
          tapd_fields |-> IF include_images_in_description /\ m.image_urls # <<>>
                          THEN embed_images(with_ws, m.image_urls)
                          ELSE with_ws]

\* the body shared by build_story and build_bug after the mapping pass:
\* lines 219-237 / 254-272 with `required` the mandatory key
finish_build(m, required, include_images_in_description) ==
    IF m.raised
    THEN [NotBuilt EXCEPT !.status = "Exception"]
    ELSE IF required \notin DOMAIN m.tapd_data \/ m.tapd_data[required] = <<>>
    THEN [status |-> "ValueError", mapped |-> m.tapd_data,
          image_urls |-> m.image_urls, tapd_fields |-> EmptyData]
    ELSE LET with_ws == DictSet(m.tapd_data, "workspace_id", workspace_id) IN
         [status |-> "ok", mapped |-> m.tapd_data, image_urls |-> m.image_urls,
          tapd_fields |-> IF include_images_in_description /\ m.image_urls # <<>>
                          THEN embed_images(with_ws, m.image_urls)
                          ELSE with_ws]

\* TicketBuilder.build_story(feishu_data, include_images_in_description)
build_story(feishu_data, include_images_in_description) ==
    finish_build(map_story_fields(feishu_data), "name", include_images_in_description)

\* TicketBuilder.build_bug(feishu_data, include_images_in_description)
build_bug(feishu_data, include_images_in_description) ==
    finish_build(map_bug_fields(feishu_data), "title", include_images_in_description)

----------------------------------------------------------------------------
(* The text-scanning conversion: ImageHandler.auto_convert_urls_in_text    *)
(* (image_handler.py 251-277) and TapdClient.auto_convert_image_urls       *)
(* (tapd.py 172-205).  Both substitute, by an img tag, the matches of the  *)
(* pattern img_pattern taken case-insensitively: http:// or https://, one  *)
(* or more characters other than whitespace, angle brackets and quotes, a  *)
(* dot and one of png, jpg, jpeg, gif, bmp, webp, svg, then optionally a   *)
(* question mark and more such characters.                                 *)

S_img_tag == <<"<", "i", "m", "g">>
S_src_eq  == <<"s", "r", "c", "=">>
S_img_close == <<"\"", " ", "/", ">">>

\* [^\s<>"']
UrlChar(c) == c \notin Whitespace \cup {"<", ">", "\"", "'"}

\* the characters a character of the pattern matches under re.IGNORECASE:
\* itself, for a letter its other case, and for i, s and k the characters
\* U+0130 and U+0131, U+017F, U+212A
IgnoreCase(p) ==
    {p} \cup (IF IndexIn(p, LowerChars) # 0 THEN {UpperChars[IndexIn(p, LowerChars)]} ELSE {})
        \cup (IF p = "i" THEN {"u0130", "u0131"}
              ELSE IF p = "s" THEN {"u017f"}
              ELSE IF p = "k" THEN {"u212a"}
              ELSE {})

\* the lower-case literal pat matches at position i
LiteralAt(t, i, pat) ==
    /\ i + Len(pat) - 1 <= Len(t)
    /\ \A k \in 1..Len(pat) : t[i + k - 1] \in IgnoreCase(pat[k])

\* https?:// at position i: the length matched, 0 when it does not match
SchemeAt(t, i) ==
    IF LiteralAt(t, i, S_http) THEN 7
    ELSE IF LiteralAt(t, i, S_https) THEN 8
    ELSE 0

\* the last position of the run of [^\s<>"'] characters that starts at j
\* (j - 1 when there is none)
RunEnd(t, j) ==
    CHOOSE e \in (j - 1)..Len(t) :
        /\ \A k \in j..e : UrlChar(t[k])
        /\ e = Len(t) \/ ~UrlChar(t[e + 1])

\* \.(?:png|jpg|jpeg|gif|bmp|webp|svg) at position d: the length matched
ExtAt(t, d) ==
    LET fits == { ext \in image_extensions : LiteralAt(t, d, ext) }
    IN  IF fits = {} THEN 0 ELSE Len(CHOOSE ext \in fits : TRUE)

\* the end of the match of the pattern that starts at position i, 0 when none
\* starts there: the greedy [^\s<>"']+ gives back characters down to the last
\* extension of its run, and a "?" right after that extension takes the rest
\* of the run with it
MatchEnd(t, i) ==
    LET n == SchemeAt(t, i)
        j == i + n
        e == RunEnd(t, j)
        dots == { d \in (j + 1)..e : ExtAt(t, d) > 0 }
    IN  IF n = 0 \/ dots = {} THEN 0
        ELSE LET d == SetMax(dots)
                 m == d + ExtAt(t, d) - 1
             IN  IF m < Len(t) /\ t[m + 1] = "?" THEN e ELSE m

\* image_handler.py 275: the tag replace_url builds
img_tag_styled(url) ==
    S_img_src \o url \o S_img_alt \o S_img_style \o S_max_width \o S_img_end

\* tapd.py 199
img_tag_plain(url) == S_img_src \o url \o S_img_alt \o S_img_close

RECURSIVE re_sub_styled(_, _)
\* re.sub(img_pattern, replace_url, text, flags=re.IGNORECASE) from position i on
re_sub_styled(t, i) ==
    IF i > Len(t) THEN <<>>
    ELSE IF MatchEnd(t, i) > 0
    THEN img_tag_styled(SubSeq(t, i, MatchEnd(t, i))) \o re_sub_styled(t, MatchEnd(t, i) + 1)
    ELSE <<t[i]>> \o re_sub_styled(t, i + 1)

RECURSIVE re_sub_plain(_, _)
re_sub_plain(t, i) ==
    IF i > Len(t) THEN <<>>
    ELSE IF MatchEnd(t, i) > 0
    THEN img_tag_plain(SubSeq(t, i, MatchEnd(t, i))) \o re_sub_plain(t, MatchEnd(t, i) + 1)
    ELSE <<t[i]>> \o re_sub_plain(t, i + 1)

\* mutant: no look for markup that is already there
auto_convert_urls_in_text_unguarded(text) == re_sub_styled(text, 1)

\* ImageHandler.auto_convert_urls_in_text
auto_convert_urls_in_text(text) ==
    IF text = <<>> THEN text
    ELSE IF Contains(text, S_img_tag) /\ Contains(text, S_src_eq) THEN text
    ELSE re_sub_styled(text, 1)

\* TapdClient.auto_convert_image_urls
auto_convert_image_urls(description) ==
    IF description = <<>> THEN description
    ELSE IF Contains(description, S_img_tag) /\ Contains(description, S_src_eq)
    THEN description
    ELSE re_sub_plain(description, 1)

----------------------------------------------------------------------------
(* FeishuWebhookHandler.create_ticket and the external TAPD client.        *)

\* Messages are compared only as wholes; each is one token per fixed part:
\*   "ValidationFailed"   数据验证失败:        "StoryNeedsName"  需求单必须包含标题(name)字段
\*   "CreateStoryFailed"  创建需求失败:        "BugNeedsTitle"   缺陷单必须包含标题(title)字段
\*   "CreateBugFailed"    创建缺陷失败:        "NoTicketId"      API返回成功但未获取到工单ID
\*   "CreateTaskFailed"   创建任务失败:        "UnsupportedType" 不支持的工单类型:
\*   "AttributeError"     '...' object has no attribute 'startswith' / 'items' / 'get'
\*   "ApiError"           the text of the exception the client raised
\*   "TicketCreated"      工单创建成功          "ServerError"     服务器错误:
NoMessage == <<>>

\* What the TAPD client can answer to one create call (tapd.py 33-66, 295-334,
\* 378-413): the created object with an id; an object without an id, empty or
\* holding other members; or an exception, the Exception of _request (lines
\* 61, 66) or a ValueError (line 55, response.json() on a body that is no
\* JSON).  text is what the client said: the text of the exception, or the
\* content of an answer that has no id.
S_ticket_id == <<"1", "0", "0", "1">>

ApiReplies ==
    { [kind |-> "id", id |-> S_ticket_id, exc |-> "", text |-> <<>>],
      [kind |-> "noid", id |-> <<>>, exc |-> "", text |-> <<>>],
      [kind |-> "noid", id |-> <<>>, exc |-> "", text |-> <<"Refused">>],
      [kind |-> "raise", id |-> <<>>, exc |-> "Exception", text |-> <<"ApiError">>],
      [kind |-> "raise", id |-> <<>>, exc |-> "ValueError", text |-> <<"BadAnswer">>] }

NoReply == [kind |-> "none", id |-> <<>>, exc |-> "", text |-> <<>>]

\* TapdConfig.get_story_url
get_story_url(story_id) ==
    S_web_base_url \o <<"/">> \o workspace_id \o S_story_path \o story_id

\* mutant: the bug link built on the story path
get_bug_url_prong(bug_id) ==
    S_web_base_url \o <<"/">> \o workspace_id \o S_story_path \o bug_id

\* TapdConfig.get_bug_url
get_bug_url(bug_id) ==
    S_web_base_url \o <<"/">> \o workspace_id \o S_bug_path \o bug_id

\* the task link of _create_task (line 264)
get_task_url(task_id) ==
    S_web_base_url \o <<"/">> \o workspace_id \o S_task_path \o task_id

\* CreateTicketResult; <<>> / "" / NoReply stand for None
Failure(message, raw) ==
    [success |-> FALSE, ticket_id |-> <<>>, ticket_url |-> <<>>, ticket_type |-> "",
     error_message |-> message, raw_response |-> raw]

Success(id, url, type, raw) ==
    [success |-> TRUE, ticket_id |-> id, ticket_url |-> url, ticket_type |-> type,
     error_message |-> NoMessage, raw_response |-> raw]

NoResult == Failure(NoMessage, NoReply)

\* mutant: the text of the client's exception is dropped
after_call_silent(reply, type, url, failed) ==
    IF reply.kind = "raise" THEN Failure(NoMessage, NoReply)
    ELSE IF reply.kind = "id" THEN Success(reply.id, url, type, reply)
    ELSE Failure(<<"NoTicketId">>, reply)

\* lines 182-208 (and 220-246, 262-283): the result after the client answered.
\* An exception of the client leaves the try block through the handler of its
\* class: _create_story and _create_bug report a ValueError as
\* "ValidationFailed: <text>" (lines 199-203, 237-241) and any other exception
\* under their own prefix `failed` (lines 204-208, 242-246); _create_task has
\* the one handler of lines 279-283.
after_call(reply, type, url, failed) ==
    IF reply.kind = "raise"
    THEN IF reply.exc = "ValueError" /\ type # "task"
         THEN Failure(<<"ValidationFailed">> \o reply.text, NoReply)
         ELSE Failure(<<failed>> \o reply.text, NoReply)
    ELSE IF reply.kind = "id" THEN Success(reply.id, url, type, reply)
    ELSE Failure(<<"NoTicketId">>, reply)

\* An outcome of create_ticket: what was built, the client calls made, the result.
Outcome(b, c, r) == [built |-> b, calls |-> c, result |-> r]

\* _create_story after the build (lines 176-208): an exception of the build is
\* caught by the handler of its class, a build that returned is submitted and
\* the client's answer or exception is turned into the result by after_call
submit_story(b, reply) ==
    IF b.status = "ValueError"
    THEN Outcome(b, <<>>, Failure(<<"ValidationFailed", "StoryNeedsName">>, NoReply))
    ELSE IF b.status = "Exception"
    THEN Outcome(b, <<>>, Failure(<<"CreateStoryFailed", "AttributeError">>, NoReply))
    ELSE Outcome(b, <<[kind |-> "story", fields |-> b.tapd_fields]>>,
                 after_call(reply, "story", get_story_url(reply.id), "CreateStoryFailed"))

\* _create_bug after the build (lines 214-246), as submit_story
submit_bug(b, reply) ==
    IF b.status = "ValueError"
    THEN Outcome(b, <<>>, Failure(<<"ValidationFailed", "BugNeedsTitle">>, NoReply))
    ELSE IF b.status = "Exception"
    THEN Outcome(b, <<>>, Failure(<<"CreateBugFailed", "AttributeError">>, NoReply))
    ELSE Outcome(b, <<[kind |-> "bug", fields |-> b.tapd_fields]>>,
                 after_call(reply, "bug", get_bug_url(reply.id), "CreateBugFailed"))

\* mutant: a submission that raised is tried once more
_create_story_retry(rec, reply) ==
    IF rec.t # "dict"
    THEN Outcome([NotBuilt EXCEPT !.status = "Exception"], <<>>,
                 Failure(<<"CreateStoryFailed", "AttributeError">>, NoReply))
    ELSE
    LET b == build_story(rec.d, TRUE)
        call == [kind |-> "story", fields |-> b.tapd_fields] IN
    IF b.status = "ValueError"
    THEN Outcome(b, <<>>, Failure(<<"ValidationFailed", "StoryNeedsName">>, NoReply))
    ELSE IF b.status = "Exception"
    THEN Outcome(b, <<>>, Failure(<<"CreateStoryFailed", "AttributeError">>, NoReply))
    ELSE Outcome(b, IF reply.kind = "raise" THEN <<call, call>> ELSE <<call>>,
                 after_call(reply, "story", get_story_url(reply.id), "CreateStoryFailed"))

\* FeishuWebhookHandler._create_story
_create_story(rec, reply) ==
    IF rec.t # "dict"    \* feishu_data.items() raises AttributeError
    THEN Outcome([NotBuilt EXCEPT !.status = "Exception"], <<>>,
                 Failure(<<"CreateStoryFailed", "AttributeError">>, NoReply))
    ELSE
    submit_story(build_story(rec.d, TRUE), reply)

\* FeishuWebhookHandler._create_bug
_create_bug(rec, reply) ==
    IF rec.t # "dict"    \* feishu_data.items() raises AttributeError
    THEN Outcome([NotBuilt EXCEPT !.status = "Exception"], <<>>,
                 Failure(<<"CreateBugFailed", "AttributeError">>, NoReply))
    ELSE
    submit_bug(build_bug(rec.d, TRUE), reply)

\* the three arguments _create_task passes to the client (lines 252-254)
task_fields(d) ==
    [name |-> PyOr(PyOr(DictGet(d, "biaoti", VNull), DictGet(d, "mingcheng", VNull)),
                   DictGet(d, "name", VStr(<<>>))),
     description |-> PyOr(DictGet(d, "miaoshu", VNull),
                          DictGet(d, "description", VStr(<<>>))),
     owner |-> PyOr(DictGet(d, "chuliren", VNull), DictGet(d, "owner", VStr(<<>>)))]

\* FeishuWebhookHandler._create_task
_create_task(rec, reply) ==
    IF rec.t # "dict"    \* record_data.get raises AttributeError
    THEN Outcome(NotBuilt, <<>>, Failure(<<"CreateTaskFailed", "AttributeError">>, NoReply))
    ELSE
    Outcome(NotBuilt, <<[kind |-> "task", fields |-> task_fields(rec.d)]>>,
            after_call(reply, "task", get_task_url(reply.id), "CreateTaskFailed"))

\* mutant: an unknown type is treated as a story
create_ticket_default_story(type, rec, reply) ==
    IF type = "bug" THEN _create_bug(rec, reply)
    ELSE IF type = "task" THEN _create_task(rec, reply)
    ELSE _create_story(rec, reply)

\* FeishuWebhookHandler.create_ticket
create_ticket(type, rec, reply) ==
    IF type = "story" THEN _create_story(rec, reply)
    ELSE IF type = "bug" THEN _create_bug(rec, reply)
    ELSE IF type = "task" THEN _create_task(rec, reply)
    ELSE Outcome(NotBuilt, <<>>, Failure(<<"UnsupportedType", type>>, NoReply))

\* the response handle_request builds from a result (lines 307-331)
build_response(r) ==
    IF r.success
    THEN [status |-> "success", code |-> 0, message |-> <<"TicketCreated">>,
          data |-> [ticket_id |-> r.ticket_id, ticket_url |-> r.ticket_url,
                    ticket_type |-> r.ticket_type,
                    Story |-> IF r.ticket_type = "story" THEN [id |-> r.ticket_id]
                                                         ELSE VNull,
                    Bug |-> IF r.ticket_type = "bug" THEN [id |-> r.ticket_id]
                                                     ELSE VNull]]
    ELSE [status |-> "error", code |-> 0 - 1, message |-> r.error_message,
          data |-> VNull]

\* the answer of main.feishu_webhook when handle_request raises (main.py 168-178)
server_error_response ==
    [status |-> "error", code |-> 0 - 1, message |-> <<"ServerError">>, data |-> VNull]

NoResponse == [status |-> "none"]

\* mutant: a challenge whose value is falsy is not answered
handle_challenge_truthy(b) ==
    IF HasKey(b, "challenge") /\ Truthy(DictGet(b, "challenge", VNull))
    THEN [challenge |-> DictGet(b, "challenge", VNull)]
    ELSE NoResponse

\* FeishuWebhookHandler.handle_challenge; NoResponse stands for None
handle_challenge(b) ==
    IF HasKey(b, "challenge")
    THEN [challenge |-> DictGet(b, "challenge", VNull)]
    ELSE NoResponse

----------------------------------------------------------------------------
(* The requests the model sends.                                           *)

\* the longest record (number of entries) a request carries
MaxEntries == 2

IN_T       == <<"T">>
IN_N       == <<"N">>
IN_x       == <<"x">>
IN_blank   == <<" ", " ">>
IN_gao     == <<"gao">>                  \* the priority label "high" (one CJK character)
IN_gao_sp  == <<" ", "gao", " ">>
IN_P9      == <<"P", "9">>
IN_yiban   == <<"yi", "ban">>            \* the severity label "general"
IN_x_sp    == <<" ", "x", " ">>
\* padded with a form feed and a no-break space; holding a single quote and a
\* line feed; holding a backslash and both quotes
IN_ff_x    == <<"\f", "x", "u00a0">>
IN_gao_ff  == <<"\f", "gao", "u00a0">>
IN_quote   == <<"a", "'", "\n">>
IN_bslash  == <<"a", "\\", "\"", "'">>
\* "TASK" written with the Kelvin sign, "DEFECT" with an accented E
IN_TASK_kelvin   == <<"T", "A", "S", "u212a">>
IN_DEFECT_accent == <<"D", "u00c9", "F", "E", "C", "T">>
\* holding a NUL; an escape sequence; holding a zero-width space
IN_nul     == <<"a", "u0000">>
IN_escape  == <<"u001b", "[", "0", "m">>
IN_zwsp    == <<"a", "u200b", "b">>
IN_png     == <<"h", "t", "t", "p", ":", "/", "/", "h", "/", "a", ".", "p", "n", "g">>
IN_jpg     == <<"h", "t", "t", "p", ":", "/", "/", "h", "/", "b", ".", "j", "p", "g">>
IN_BUG     == <<"B", "U", "G">>
IN_qita    == <<"qi", "ta">>             \* "other": no ticket type
IN_999     == <<"9", "9", "9">>
IN_bar     == <<"b", "a", "r">>
IN_abc     == <<"a", "b", "c">>
IN_c1      == <<"c", "1">>
\* a string of pieces: an image URL, a run of separators, a padded image URL,
\* a piece that is no URL, the first URL again
IN_pieces  == IN_png \o <<",", ";", "\n", " ">> \o IN_jpg \o <<" ", ",", "x", ",">> \o IN_png
\* two image URLs with a vertical tab after the comma and a form feed at the end
IN_pieces_ff == IN_png \o <<",", "u000b">> \o IN_jpg \o <<"\f">>
\* URLs without image extension whose only "image" is in the host, the query, the path
IN_image_host  == <<"h", "t", "t", "p", ":", "/", "/", "i", "m", "a", "g", "e", ".", "h", "/", "a">>
IN_image_query == <<"h", "t", "t", "p", ":", "/", "/", "h", "/", "a", "?", "i", "m", "a", "g", "e">>
IN_image_path  == <<"h", "t", "t", "p", ":", "/", "/", "h", "/", "i", "m", "a", "g", "e", "/", "a">>
\* an upper-case extension before a query string; an extension only in the query
IN_PNG_query   == <<"h", "t", "t", "p", "s", ":", "/", "/", "h", "/", "a", ".", "P", "N", "G", "?", "x", "=", "1">>
IN_query_png   == <<"h", "t", "t", "p", ":", "/", "/", "h", "/", "a", "?", "b", ".", "p", "n", "g">>
\* an image extension behind another scheme
IN_ftp_png     == <<"f", "t", "p", ":", "/", "/", "h", "/", "a", ".", "p", "n", "g">>

\* the <<label, value>> entries a record is made of
TitleEntries ==
    { <<"biaoti", VStr(IN_T)>>, <<"biaoti", VStr(<<>>)>>, <<"biaoti", VStr(IN_blank)>>,
      <<"biaoti", VNull>>, <<"title", VStr(IN_T)>>, <<"mingcheng", VStr(IN_N)>>,
      <<"miaoshu", VStr(IN_x)>> }

VocabularyEntries ==
    { <<"youxianji", VStr(IN_gao)>>, <<"youxianji", VStr(IN_gao_sp)>>,
      <<"youxianji", VNum(2)>>, <<"priority", VStr(IN_P9)>>,
      <<"yanzhongchengdu", VStr(IN_yiban)>>, <<"yanzhongchengdu", VStr(IN_x_sp)>> }

ImageEntries ==
    { <<"tupian", VStr(IN_png)>>,
      <<"tupian", VDict(<< <<"url", VStr(IN_png)>> >>)>>,
      <<"tupian", VDict(<< <<"tmp_url", VStr(IN_png)>> >>)>>,
      <<"tupian", VList(<< VDict(<< <<"url", VNum(5)>> >>) >>)>>,
      <<"tupian", VNum(123)>>,
      <<"tupian", VStr(IN_pieces)>>,
      <<"fujiantupian", VList(<< VStr(IN_image_host), VStr(IN_image_query),
                                 VStr(IN_image_path), VStr(IN_PNG_query),
                                 VStr(IN_query_png), VStr(IN_ftp_png),
                                 VStr(IN_png), VStr(IN_png) >>)>>,
      <<"jietu", VList(<< VStr(IN_jpg), VDict(<< <<"file_url", VStr(IN_png)>> >>),
                          VNum(7) >>)>> }

TypeEntries ==
    { <<"leixing", VStr(S_quexian)>>, <<"type", VStr(IN_BUG)>>,
      <<"ticket_type", VStr(S_renwu)>>, <<"leixing", VStr(IN_qita)>>,
      <<"type", VNull>>, <<"ticket_type", VNum(5)>> }

OtherEntries ==
    { <<"workspace_id", VStr(IN_999)>>, <<"foo", VStr(IN_bar)>> }

Entries ==
    TitleEntries \cup VocabularyEntries \cup ImageEntries \cup TypeEntries \cup OtherEntries

RECURSIVE Records(_)
\* the records of at most n entries, no label twice
Records(n) ==
    IF n = 0 THEN { <<>> }
    ELSE LET shorter == Records(n - 1) IN
         shorter \cup UNION { { Append(r, e) : e \in { f \in Entries : ~HasKey(r, f[1]) } } :
                               r \in { q \in shorter : Len(q) = n - 1 } }

\* the keys an envelope carries beside "record"
EnvelopeHints ==
    { <<>>,
      << <<"ticket_type", VStr(S_quexian)>> >>,
      << <<"type", VStr(S_task)>>, <<"ticket_type", VNull>> >>,
      << <<"type", VStr(IN_BUG)>> >> }

\* envelope "record" values that are not a JSON object
OddRecords == { VStr(IN_abc), VList(<< VStr(IN_T) >>), VNull, VNum(5) }

\* longer records: a title with a description and images, with a blank
\* description and an image, with two image carriers
ScenarioRecords ==
    { << <<"biaoti", VStr(IN_T)>>, <<"miaoshu", VStr(IN_x)>>,
         <<"jietu", VList(<< VStr(IN_jpg), VDict(<< <<"file_url", VStr(IN_png)>> >>),
                             VNum(7) >>)>> >>,
      << <<"biaoti", VStr(IN_T)>>, <<"miaoshu", VStr(IN_blank)>>,
         <<"tupian", VStr(IN_png)>> >>,
      << <<"jietu", VList(<< VStr(IN_jpg) >>)>>, <<"biaoti", VStr(IN_T)>>,
         <<"tupian", VStr(IN_pieces)>>, <<"miaoshu", VStr(IN_x)>> >>,
      << <<"biaoti", VStr(IN_ff_x)>>, <<"youxianji", VStr(IN_gao_ff)>>,
         <<"tupian", VStr(IN_pieces_ff)>>, <<"miaoshu", VStr(IN_quote)>> >>,
      << <<"leixing", VStr(S_quexian)>>, <<"biaoti", VStr(IN_T)>>,
         <<"yanzhongchengdu", VStr(IN_ff_x)>>,
         <<"fuzeren", VList(<< VStr(IN_quote), VStr(IN_bslash) >>)>> >>,
      << <<"leixing", VStr(IN_TASK_kelvin)>>, <<"biaoti", VStr(IN_T)>> >>,
      << <<"mingcheng", VStr(IN_N)>>, <<"miaoshu", VDict(<< <<"url", VStr(IN_nul)>> >>)>>,
         <<"fuzeren", VList(<< VDict(<< <<"name", VStr(IN_zwsp)>> >>), VNum(1) >>)>> >> }

IN_FX      == <<"F", "X">>
IN_fx      == <<"f", "x">>
IN_FX_sp   == <<" ", "F", "X", " ">>
IN_QA      == <<"Q", "A">>
IN_Epic    == <<"E", "p", "i", "c">>
IN_epic    == <<"e", "p", "i", "c">>
IN_junk    == <<"j", "u", "n", "k">>
IN_a       == <<"a">>
\* "arts" written with a long s, "ui" with a dotless i, "asset" with a sharp s,
\* "fix" with the fi ligature
IN_arts_long_s  == <<"a", "r", "t", "u017f">>
IN_ui_dotless   == <<"u", "u0131">>
IN_asset_sharp  == <<"A", "u00df", "E", "T">>
IN_fix_ligature == <<"ufb01", "x">>
IN_b_sp    == <<" ", "b", " ">>

\* story records with category entries (biaoqianleixing, xuqiuleibie), generic
\* label entries (biaoqian, label) and the canonical key workitem_type_id, in
\* both orders
CategoryRecords ==
    { << <<"mingcheng", VStr(IN_N)>>, <<"biaoqianleixing", VStr(IN_FX)>> >>,
      << <<"mingcheng", VStr(IN_N)>>, <<"biaoqianleixing", VStr(IN_fx)>> >>,
      << <<"mingcheng", VStr(IN_N)>>, <<"xuqiuleibie", VStr(IN_Epic)>> >>,
      << <<"mingcheng", VStr(IN_N)>>, <<"xuqiuleibie", VStr(IN_epic)>> >>,
      << <<"mingcheng", VStr(IN_N)>>, <<"xuqiuleibie", VList(<< VStr(IN_FX) >>)>> >>,
      << <<"mingcheng", VStr(IN_N)>>, <<"biaoqian", VStr(IN_b_sp)>>,
         <<"biaoqianleixing", VStr(IN_QA)>> >>,
      << <<"biaoqianleixing", VStr(IN_QA)>>, <<"biaoqian", VStr(IN_b_sp)>>,
         <<"mingcheng", VStr(IN_N)>> >>,
      << <<"xuqiuleibie", VStr(IN_junk)>>, <<"label", VStr(IN_a)>>,
         <<"biaoqianleixing", VStr(IN_fx)>>, <<"mingcheng", VStr(IN_N)>> >>,
      << <<"mingcheng", VStr(IN_N)>>, <<"biaoqianleixing", VStr(IN_FX_sp)>> >>,
      << <<"biaoqian", VStr(<<>>)>>, <<"biaoqianleixing", VStr(IN_FX)>>,
         <<"mingcheng", VStr(IN_N)>> >>,
      << <<"mingcheng", VStr(IN_N)>>, <<"biaoqianleixing", VStr(IN_FX)>>,
         <<"xuqiuleibie", VStr(IN_QA)>> >>,
      << <<"mingcheng", VStr(IN_N)>>, <<"xuqiuleibie", VStr(IN_QA)>>,
         <<"biaoqianleixing", VStr(IN_FX)>> >>,
      << <<"mingcheng", VStr(IN_N)>>, <<"xuqiuleibie", VStr(IN_QA)>>,
         <<"biaoqianleixing", VStr(IN_junk)>> >>,
      << <<"mingcheng", VStr(IN_N)>>, <<"workitem_type_id", VStr(IN_junk)>> >>,
      << <<"mingcheng", VStr(IN_N)>>, <<"label", VStr(IN_a)>>,
         <<"biaoqianleixing", VStr(IN_FX)>>, <<"biaoqian", VStr(IN_b_sp)>> >>,
      << <<"mingcheng", VStr(IN_N)>>, <<"biaoqianleixing", VStr(IN_FX)>>,
         <<"label", VStr(IN_a)>>, <<"biaoqian", VStr(<<>>)>> >>,
      << <<"mingcheng", VStr(IN_N)>>, <<"workitem_type_id", VStr(IN_junk)>>,
         <<"xuqiuleibie", VStr(IN_epic)>> >>,
      << <<"mingcheng", VStr(IN_N)>>, <<"xuqiuleibie", VStr(IN_FX)>>,
         <<"workitem_type_id", VStr(IN_junk)>> >>,
      << <<"mingcheng", VStr(IN_N)>>, <<"biaoqian", VStr(<<>>)>>,
         <<"biaoqianleixing", VStr(IN_FX)>> >>,
      << <<"mingcheng", VStr(IN_N)>>, <<"biaoqian", VStr(IN_a)>>,
         <<"biaoqianleixing", VStr(IN_FX)>>, <<"xuqiuleibie", VStr(IN_QA)>> >>,
      << <<"mingcheng", VStr(IN_N)>>, <<"biaoqianleixing", VStr(IN_arts_long_s)>> >>,
      << <<"mingcheng", VStr(IN_N)>>, <<"xuqiuleibie", VStr(IN_ui_dotless)>> >>,
      << <<"mingcheng", VStr(IN_N)>>, <<"xuqiuleibie", VStr(IN_fix_ligature)>> >> }

\* records in which several entries resolve to one target key: three title
\* labels, the last of them empty; a priority label and the canonical key
\* priority_label, in both orders
RepeatedTargetRecords ==
    { << <<"mingcheng", VStr(IN_N)>>, <<"biaoti", VStr(IN_T)>>,
         <<"xuqiumingcheng", VStr(<<>>)>> >>,
      << <<"biaoti", VStr(IN_T)>>, <<"title", VStr(IN_x_sp)>>,
         <<"quexianbiaoti", VNull>> >>,
      << <<"mingcheng", VStr(IN_N)>>, <<"youxianji", VStr(IN_gao)>>,
         <<"priority_label", VStr(IN_P9)>> >>,
      << <<"mingcheng", VStr(IN_N)>>, <<"priority_label", VStr(IN_P9)>>,
         <<"youxianji", VStr(IN_gao)>> >> }

PlainBodies ==
    Records(MaxEntries) \cup ScenarioRecords \cup CategoryRecords
        \cup RepeatedTargetRecords

\* what a direct caller of create_ticket (TicketService, the /api/create routes)
\* passes: any type string, any decoded JSON value as the record
DirectTypes == { "story", "bug", "task", "epic", "Story", "" }

DirectRecords ==
    { VDict(<<>>), VDict(<< <<"biaoti", VStr(IN_T)>> >>),
      VDict(<< <<"biaoti", VStr(IN_T)>>,
               <<"tupian", VList(<< VDict(<< <<"url", VNum(5)>> >>) >>)>> >>) }
    \cup OddRecords

EnvelopeBodies ==
    { << <<"record", VDict(r)>> >> \o h : r \in Records(MaxEntries), h \in EnvelopeHints }

OddEnvelopeBodies ==
    { << <<"record", v>> >> \o h : v \in OddRecords, h \in EnvelopeHints }

ChallengeBodies ==
    { << <<"challenge", c>> >> \o b :
        c \in { VStr(IN_c1), VStr(<<>>), VNull },
        b \in { <<>>, << <<"biaoti", VStr(IN_T)>> >>,
                << <<"record", VDict(<< <<"biaoti", VStr(IN_T)>> >>)>> >> } }

\* envelopes whose hint is a ticket-type word in letters outside ASCII
CasedHintBodies ==
    { << <<"record", VDict(<< <<"biaoti", VStr(IN_T)>> >>)>>,
         <<"type", VStr(IN_TASK_kelvin)>> >>,
      << <<"record", VDict(<< <<"mingcheng", VStr(IN_N)>> >>)>>,
         <<"ticket_type", VStr(IN_DEFECT_accent)>> >> }

Bodies ==
    PlainBodies \cup EnvelopeBodies \cup OddEnvelopeBodies \cup ChallengeBodies
        \cup CasedHintBodies

----------------------------------------------------------------------------
(* What the process holds besides the request in flight.                   *)

\* no helper has been called on its own
NoCall == [f |-> "", x |-> VNull, y |-> <<>>]

\* FeishuWebhookHandler.__init__ (webhook_service.py 39-52): the handler, its
\* TicketBuilder and FieldMapper all hold the one AppConfig with its tables
Handler ==
    [ story_field_mapping |-> story_field_mapping,
      bug_field_mapping   |-> bug_field_mapping,
      priority_mapping    |-> priority_mapping,
      severity_mapping    |-> severity_mapping,
      label_to_type_id    |-> label_to_type_id,
      workspace_id        |-> workspace_id ]

\* a request that came without body text and without signature headers
NoHttp == [text |-> <<>>, timestamp |-> VNull, nonce |-> VNull, signature |-> VNull]

----------------------------------------------------------------------------
(* The state machine: one request at a time through handle_request.        *)

\* no request is in flight in handle_request
Idle ==
    /\ pc = "idle"
    /\ body = <<>>
    /\ received = <<>>
    /\ hint = VNull
    /\ ticket_type = ""
    /\ record_data = VNull
    /\ embedImages = TRUE
    /\ built = NotBuilt
    /\ calls = <<>>
    /\ api_reply = NoReply
    /\ result = NoResult
    /\ response = NoResponse
    /\ pure = NoCall

Init ==
    /\ Idle
    /\ handler = Handler
    /\ inflight = <<>>
    /\ verification_token = <<>>
    /\ http = NoHttp

\* handle_request lines 296-298: a payload with a challenge key is answered at once
Challenge ==
    /\ pc = "idle"
    /\ \E b \in Bodies :
          /\ handle_challenge(b) # NoResponse
          /\ body' = b
          /\ received' = b
          /\ response' = handle_challenge(b)
    /\ pc' = "done"
    /\ UNCHANGED <<hint, ticket_type, record_data, embedImages, built, calls,
                   api_reply, result>>
    /\ UNCHANGED <<pure, pairVars, httpVars>>

\* handle_request line 301: parse_feishu_request returns
Parse ==
    /\ pc = "idle"
    /\ \E b \in Bodies :
          LET p == parse_feishu_request(b) IN
          /\ handle_challenge(b) = NoResponse
          /\ ~p.raised
          /\ body' = payload_after_parse(b)
          /\ received' = b
          /\ hint' = p.hint
          /\ ticket_type' = p.ticket_type
          /\ record_data' = p.record_data
    /\ pc' = "parsed"
    /\ UNCHANGED <<embedImages, built, calls, api_reply, result, response>>
    /\ UNCHANGED <<pure, pairVars, httpVars>>

\* handle_request line 301: parse_feishu_request raises; handle_request has no
\* handler, main.feishu_webhook answers with the server-error response
ParseRaises ==
    /\ pc = "idle"
    /\ \E b \in Bodies :
          LET p == parse_feishu_request(b) IN
          /\ handle_challenge(b) = NoResponse
          /\ p.raised
          /\ body' = b
          /\ received' = b
          /\ hint' = p.hint
    /\ response' = server_error_response
    /\ pc' = "fault"
    /\ UNCHANGED <<ticket_type, record_data, embedImages, built, calls, api_reply, result>>
    /\ UNCHANGED <<pure, pairVars, httpVars>>

\* handle_request lines 304-331: create_ticket, the client's answer, the response
\* what a call of create_ticket leaves behind: the fields it built, the calls
\* it made, the client's answer when there was a call, and its result
Returns(o, reply) ==
    /\ built' = o.built
    /\ calls' = o.calls
    /\ api_reply' = IF o.calls = <<>> THEN NoReply ELSE reply
    /\ result' = o.result

CreateTicket ==
    /\ pc = "parsed"
    /\ \E reply \in ApiReplies :
          /\ Returns(create_ticket(ticket_type, record_data, reply), reply)
          /\ response' = build_response(result')
    /\ pc' = "done"
    /\ UNCHANGED <<body, received, hint, ticket_type, record_data, embedImages>>
    /\ UNCHANGED <<pure, pairVars, httpVars>>

\* create_ticket called directly (TicketService.create_*_from_dict, main.py
\* /api/create/story and /api/create/bug): no parse step, no webhook response
CreateTicketDirect ==
    /\ pc = "idle"
    /\ \E type \in DirectTypes, rec \in DirectRecords, reply \in ApiReplies :
          /\ ticket_type' = type
          /\ record_data' = rec
          /\ Returns(create_ticket(type, rec, reply), reply)
    /\ pc' = "returned"
    /\ UNCHANGED <<body, received, hint, embedImages, response>>
    /\ UNCHANGED <<pure, pairVars, httpVars>>

\* the payloads handed to TicketService.create_from_feishu_data
ServiceBodies ==
    ChallengeBodies \cup OddEnvelopeBodies \cup ScenarioRecords \cup CategoryRecords
        \cup Records(1)
        \cup { << <<"record", VDict(r)>> >> \o h : r \in Records(1), h \in EnvelopeHints }

\* TicketService.create_from_feishu_data (webhook_service.py 348-351):
\* parse_feishu_request, then create_ticket; no look at a challenge key and
\* no webhook response
CreateFromFeishuData ==
    /\ pc = "idle"
    /\ \E b \in ServiceBodies, reply \in ApiReplies :
          LET p == parse_feishu_request(b) IN
          /\ ~p.raised
          /\ body' = payload_after_parse(b)
          /\ received' = b
          /\ hint' = p.hint
          /\ ticket_type' = p.ticket_type
          /\ record_data' = p.record_data
          /\ Returns(create_ticket(ticket_type', record_data', reply), reply)
    /\ pc' = "returned"
    /\ UNCHANGED <<embedImages, response>>
    /\ UNCHANGED <<pure, pairVars, httpVars>>

\* create_from_feishu_data line 350: parse_feishu_request raises and nothing
\* catches it, the caller gets the exception
CreateFromFeishuDataRaises ==
    /\ pc = "idle"
    /\ \E b \in ServiceBodies :
          LET p == parse_feishu_request(b) IN
          /\ p.raised
          /\ body' = b
          /\ received' = b
          /\ hint' = p.hint
    /\ pc' = "escaped"
    /\ UNCHANGED <<ticket_type, record_data, embedImages, built, calls, api_reply,
                   result, response>>
    /\ UNCHANGED <<pure, pairVars, httpVars>>

\* TicketBuilder.build_story / build_bug called directly, with either value of
\* include_images_in_description
BuildDirect ==
    /\ pc = "idle"
    /\ \E type \in {"story", "bug"}, rec \in PlainBodies, embed \in BOOLEAN :
          /\ ticket_type' = type
          /\ record_data' = VDict(rec)
          /\ embedImages' = embed
          /\ built' = IF type = "story" THEN build_story(rec, embed)
                                         ELSE build_bug(rec, embed)
    /\ pc' = "built"
    /\ UNCHANGED <<body, received, hint, calls, api_reply, result, response>>
    /\ UNCHANGED <<pure, pairVars, httpVars>>

\* the labels get_type_id is asked about: keys of the category table, the
\* same in other letter case, a padded key, an unknown label, the empty label,
\* labels whose upper case is longer or is ASCII where the label is not
TypeLabels ==
    { IN_FX, IN_fx, <<"F", "x">>, IN_QA, IN_Epic, IN_epic, <<"E", "P", "I", "C">>,
      <<"A", "u", "d", "i", "o">>, <<"a", "u", "d", "i", "o">>,
      <<"A", "U", "D", "I", "O">>, <<"p", "r", "o", "g", "r", "a", "m">>,
      IN_FX_sp, IN_junk, <<>>,
      IN_arts_long_s, IN_ui_dotless, IN_asset_sharp, IN_fix_ligature }

\* WorkitemTypeMapping.get_type_id called on its own
GetTypeId ==
    /\ pc = "idle"
    /\ \E label \in TypeLabels :
          pure' = [f |-> "get_type_id", x |-> VStr(label), y |-> get_type_id(label)]
    /\ pc' = "applied"
    /\ UNCHANGED <<body, received, hint, ticket_type, record_data, embedImages, built, calls,
                   api_reply, result, response, pairVars, httpVars>>

\* the values _clean_value is given: strings, numbers, lists of one, of
\* several and of no elements, and the other JSON shapes
CleanInputs ==
    { VStr(IN_x_sp), VStr(IN_T), VStr(IN_blank), VNum(5), VNum(0), VNum(-3),
      VBool(TRUE), VBool(FALSE), VNull, VDict(<< <<"name", VStr(IN_x)>> >>),
      VList(<<>>), VList(<< VStr(IN_x_sp) >>), VList(<< VNum(0) >>),
      VList(<< VStr(<<>>) >>), VList(<< VNull >>),
      VList(<< VStr(IN_a), VStr(IN_b_sp) >>),
      VList(<< VStr(IN_a), VStr(<<>>), VStr(IN_b_sp) >>),
      VList(<< VStr(IN_a), VStr(IN_blank) >>),
      VList(<< VNull, VStr(IN_a) >>),
      VList(<< VNum(1), VNum(2) >>),
      VList(<< VNum(0), VStr(IN_a) >>),
      VList(<< VStr(IN_a), VNum(0), VStr(IN_b_sp) >>),
      VList(<< VList(<< VStr(IN_x) >>), VStr(IN_a) >>),
      VStr(IN_ff_x), VDict(<< <<"name", VStr(IN_quote)>> >>),
      VList(<< VStr(IN_quote), VStr(IN_ff_x) >>),
      VList(<< VStr(IN_bslash), VStr(IN_a) >>),
      VDict(<< <<"url", VStr(IN_nul)>> >>),
      VList(<< VList(<< VStr(IN_escape) >>) >>),
      VList(<< VDict(<< <<"name", VStr(IN_zwsp)>> >>), VNum(1) >>) }

\* FieldMapper._clean_value called on its own
CleanValue ==
    /\ pc = "idle"
    /\ \E value \in CleanInputs :
          pure' = [f |-> "_clean_value", x |-> value, y |-> _clean_value(value)]
    /\ pc' = "applied"
    /\ UNCHANGED <<body, received, hint, ticket_type, record_data, embedImages, built, calls,
                   api_reply, result, response, pairVars, httpVars>>

\* texts handed to the text-scanning conversion
TX_empty == <<>>
TX_plain ==
    <<"s", "e", "e", " ", "h", "t", "t", "p", ":", "/", "/", "h", "/", "a", ".", "p", "n", "g", " ", "n", "o", "w">>
TX_query ==
    <<"h", "t", "t", "p", "s", ":", "/", "/", "h", "/", "a", ".", "P", "N", "G", "?", "x", "=", "1", " ", "o", "k">>
TX_two ==
    <<"h", "t", "t", "p", ":", "/", "/", "h", "/", "a", ".", "p", "n", "g", " ", "h", "t", "t", "p", ":", "/", "/", "h", "/", "b", ".", "j", "p", "g">>
TX_same_twice ==
    <<"h", "t", "t", "p", ":", "/", "/", "h", "/", "a", ".", "p", "n", "g", "\n", "h", "t", "t", "p", ":", "/", "/", "h", "/", "a", ".", "p", "n", "g">>
TX_comma ==
    <<"h", "t", "t", "p", ":", "/", "/", "h", "/", "a", ".", "p", "n", "g", ",", "h", "t", "t", "p", ":", "/", "/", "h", "/", "b", ".", "j", "p", "g">>
TX_prefixed ==
    <<"jie", "tu", ":", "h", "t", "t", "p", ":", "/", "/", "h", "/", "a", ".", "p", "n", "g">>
TX_quoted ==
    <<"'", "h", "t", "t", "p", ":", "/", "/", "h", "/", "a", ".", "p", "n", "g", "'">>
TX_tagged ==
    <<"<", "i", "m", "g", " ", "s", "r", "c", "=", "\"", "h", "t", "t", "p", ":", "/", "/", "h", "/", "a", ".", "p", "n", "g", "\"", " ", "/", ">">>
TX_tagged_and_bare ==
    <<"<", "i", "m", "g", " ", "s", "r", "c", "=", "\"", "x", "\"", ">", " ", "h", "t", "t", "p", ":", "/", "/", "h", "/", "b", ".", "j", "p", "g">>
TX_upper_tag ==
    <<"<", "I", "M", "G", " ", "S", "R", "C", "=", "\"", "h", "t", "t", "p", ":", "/", "/", "h", "/", "a", ".", "p", "n", "g", "\"", ">">>
TX_anchor ==
    <<"<", "a", ">", "h", "t", "t", "p", ":", "/", "/", "h", "/", "a", ".", "p", "n", "g", "<", "/", "a", ">">>
TX_src_only ==
    <<"s", "r", "c", "=", " ", "h", "t", "t", "p", ":", "/", "/", "h", "/", "a", ".", "p", "n", "g">>
TX_tail ==
    <<"h", "t", "t", "p", ":", "/", "/", "h", "/", "a", ".", "p", "n", "g", "x">>
TX_no_image ==
    <<"h", "t", "t", "p", ":", "/", "/", "h", "/", "a", ".", "t", "x", "t", " ", "f", "t", "p", ":", "/", "/", "h", "/", "a", ".", "p", "n", "g">>
TX_bare_dot == <<"h", "t", "t", "p", ":", "/", "/", ".", "p", "n", "g">>
TX_upper ==
    <<"H", "T", "T", "P", ":", "/", "/", "H", "/", "A", ".", "J", "P", "E", "G">>
TX_query_dot ==
    <<"h", "t", "t", "p", ":", "/", "/", "h", "/", "a", "?", "b", ".", "g", "i", "f">>
TX_two_ext ==
    <<"h", "t", "t", "p", ":", "/", "/", "h", "/", "a", ".", "p", "n", "g", ".", "s", "v", "g", "?", "q", " ", "r">>
TX_query_ext ==
    <<"h", "t", "t", "p", ":", "/", "/", "h", "/", "a", ".", "p", "n", "g", "?", "f", "=", "b", ".", "j", "p", "g", "&", "x">>
\* two image URLs with a form feed between them
TX_formfeed == IN_png \o <<"\f">> \o IN_jpg

\* an extension written with a long s; a scheme written with a long s and an
\* extension with a dotless i
TX_long_s == <<"h", "t", "t", "p", ":", "/", "/", "h", "/", "a", ".", "u017f", "v", "g", " ", "x">>
TX_dotless ==
    <<"H", "T", "T", "P", "u017f", ":", "/", "/", "h", "/", "a", ".", "g", "u0131", "f", "?", "u00e9", " ", "y">>

ConvertTexts ==
    { TX_empty, TX_plain, TX_query, TX_two,
      TX_same_twice, TX_comma, TX_prefixed, TX_quoted,
      TX_tagged, TX_tagged_and_bare, TX_upper_tag, TX_anchor,
      TX_src_only, TX_tail, TX_no_image, TX_bare_dot,
      TX_upper, TX_query_dot, TX_two_ext, TX_query_ext, TX_formfeed,
      TX_long_s, TX_dotless }

\* ImageHandler.auto_convert_urls_in_text called on its own
AutoConvertText ==
    /\ pc = "idle"
    /\ \E text \in ConvertTexts :
          pure' = [f |-> "auto_convert_urls_in_text", x |-> VStr(text),
                   y |-> VStr(auto_convert_urls_in_text(text))]
    /\ pc' = "applied"
    /\ UNCHANGED <<body, received, hint, ticket_type, record_data, embedImages, built, calls,
                   api_reply, result, response, pairVars, httpVars>>

\* TapdClient.auto_convert_image_urls called on its own
AutoConvertDescription ==
    /\ pc = "idle"
    /\ \E description \in ConvertTexts :
          pure' = [f |-> "auto_convert_image_urls", x |-> VStr(description),
                   y |-> VStr(auto_convert_image_urls(description))]
    /\ pc' = "applied"
    /\ UNCHANGED <<body, received, hint, ticket_type, record_data, embedImages, built, calls,
                   api_reply, result, response, pairVars, httpVars>>

\* the request is over; nothing of it is kept (every object is per request)
Finish ==
    /\ pc \in {"done", "fault", "returned", "escaped", "built", "applied", "rejected"}
    /\ pc' = "idle"
    /\ body' = <<>>
    /\ received' = <<>>
    /\ hint' = VNull
    /\ ticket_type' = ""
    /\ record_data' = VNull
    /\ embedImages' = TRUE
    /\ built' = NotBuilt
    /\ calls' = <<>>
    /\ api_reply' = NoReply
    /\ result' = NoResult
    /\ response' = NoResponse
    /\ pure' = NoCall
    /\ UNCHANGED <<pairVars, httpVars>>

Next ==
    \/ Challenge \/ Parse \/ ParseRaises \/ CreateTicket
    \/ CreateTicketDirect \/ CreateFromFeishuData \/ CreateFromFeishuDataRaises
    \/ BuildDirect \/ GetTypeId \/ CleanValue
    \/ AutoConvertText \/ AutoConvertDescription \/ Finish

Spec == Init /\ [][Next]_vars

----------------------------------------------------------------------------
(* Two requests running concurrently on the one FeishuWebhookHandler       *)
(* (main.py 39-58: the handler is a module global made once at startup).   *)
(* A request's steps are those of handle_request; the mapping pass is      *)
(* taken one loop iteration at a time, so that the passes of two requests  *)
(* interleave entry by entry as they do on a threaded server.              *)

\* the payloads of the concurrent requests: a bug with an image, a story with
\* a description and attachments, an enveloped story with a priority and a
\* category, a bug by its localized type label, a story without a title
PairBodies ==
    { << <<"biaoti", VStr(IN_T)>>, <<"tupian", VStr(IN_png)>> >>,
      << <<"ticket_type", VStr(S_story)>>, <<"biaoti", VStr(IN_T)>>,
         <<"miaoshu", VStr(IN_x)>>,
         <<"jietu", VList(<< VStr(IN_jpg), VDict(<< <<"file_url", VStr(IN_png)>> >>) >>)>> >>,
      << <<"record", VDict(<< <<"mingcheng", VStr(IN_N)>>,
                              <<"youxianji", VStr(IN_gao)>>,
                              <<"biaoqianleixing", VStr(<<"f", "x">>)>> >>)>> >>,
      << <<"leixing", VStr(S_quexian)>>, <<"biaoti", VStr(IN_T)>>,
         <<"yanzhongchengdu", VStr(IN_yiban)>>, <<"tupian", VStr(IN_pieces)>> >>,
      << <<"miaoshu", VStr(IN_x)>>, <<"tupian", VStr(IN_jpg)>> >> }

\* the locals of a request that has just been received; overlapped records
\* that one of its loop iterations ran while the other request was in the
\* middle of its own pass
Received(b) ==
    [pc |-> "received", body |-> b, received |-> b, ticket_type |-> "",
     record_data |-> <<>>,
     next |-> 1, acc |-> MapStart, built |-> NotBuilt, calls |-> <<>>,
     overlapped |-> FALSE]

\* The steps of a request read the tables through the handler they run on:
\* self.field_mapping and self.workitem_types are the objects of the shared
\* AppConfig (field_mapper.py 13-15), so what a step finds is what the
\* handler holds at that moment.

\* lines 35-44 / 89-98 on handler h: the target key of a label in h's field
\* table, "" when the entry is discarded
target_on(h, type, feishu_field) ==
    LET table == IF type = "story" THEN h.story_field_mapping ELSE h.bug_field_mapping
        native == IF type = "story" THEN story_native_fields ELSE bug_native_fields
    IN  IF feishu_field \in DOMAIN table THEN table[feishu_field]
        ELSE IF feishu_field \in native THEN feishu_field
        ELSE ""

\* _map_priority / _map_severity on a table of the handler
mapped_on(table, value) ==
    IF TableHas(table, Strip(value)) THEN TableGet(table, Strip(value)) ELSE Strip(value)

\* WorkitemTypeMapping.get_type_id on the handler's label table
type_id_on(table, label) ==
    IF label = <<>> THEN <<>>
    ELSE IF TableHas(table, label) THEN TableGet(table, label)
    ELSE IF TableHas(table, Upper(label)) THEN TableGet(table, Upper(label))
    ELSE <<>>

\* lines 60-65 on handler h: the category rule
category_on(h, data, text) ==
    LET type_id == type_id_on(h.label_to_type_id, text)
        data1 == IF type_id # <<>> THEN DictSet(data, "workitem_type_id", type_id)
                 ELSE data
    IN  IF "label" \notin DOMAIN data1 THEN DictSet(data1, "label", text) ELSE data1

\* lines 53-67 / 106-114 on handler h: the conversions and the store of an
\* entry whose target is tapd_field
store_on(h, type, acc, feishu_field, tapd_field, value) ==
    LET value1 == IF tapd_field \in {"priority", "priority_label"}
                  THEN VStr(mapped_on(h.priority_mapping, PyStr(value)))
                  ELSE value
        value2 == IF type = "bug" /\ tapd_field = "severity"
                  THEN VStr(mapped_on(h.severity_mapping, PyStr(value1)))
                  ELSE value1
    IN  IF type = "story" /\ feishu_field \in {"biaoqianleixing", "xuqiuleibie"}
        THEN [acc EXCEPT !.tapd_data = category_on(h, acc.tapd_data, PyStr(value1))]
        ELSE [acc EXCEPT !.tapd_data =
                   DictSet(acc.tapd_data, tapd_field, _clean_value(value2))]

\* one iteration of the loop of map_story_fields / map_bug_fields
\* (field_mapper.py 30-67, 84-114) run on handler h
entry_on(h, type, acc, feishu_field, tapd_field, value) ==
    IF acc.raised \/ is_skipped(value) \/ tapd_field = "" THEN acc
    ELSE IF tapd_field = "_images"
    THEN add_image_urls(acc, _extract_image_urls(value))
    ELSE store_on(h, type, acc, feishu_field, tapd_field, value)

\* mutant: the table lookup takes the label out of the shared table
\* (dict.pop where the code has dict.get)
entry_step_pop(h, type, acc, feishu_field, value) ==
    LET table == IF type = "story" THEN h.story_field_mapping ELSE h.bug_field_mapping
        rest == [k \in (DOMAIN table) \ {feishu_field} |-> table[k]]
    IN  [handler |-> IF type = "story" THEN [h EXCEPT !.story_field_mapping = rest]
                                       ELSE [h EXCEPT !.bug_field_mapping = rest],
         acc |-> entry_on(h, type, acc, feishu_field,
                          target_on(h, type, feishu_field), value)]

\* one loop iteration of a request running on handler h: the lookups are
\* dict.get on h's tables and the assignments go to the request's locals
\* tapd_data and image_urls, so h is handed back as it was
entry_step(h, type, acc, feishu_field, value) ==
    [handler |-> h,
     acc |-> entry_on(h, type, acc, feishu_field,
                      target_on(h, type, feishu_field), value)]

\* build_story / build_bug after the loop (lines 219-237, 254-272) on handler
\* h: the workspace is self.config.tapd.workspace_id, which is h's
finish_on(h, b) ==
    IF b.status = "ok"
    THEN [b EXCEPT !.tapd_fields = DictSet(b.tapd_fields, "workspace_id", h.workspace_id)]
    ELSE b

\* request q is in the middle of its mapping pass
MidPass(q) == q.pc = "mapping" /\ q.next > 1 /\ q.next <= Len(q.record_data)

InitPair ==
    /\ Idle
    /\ handler = Handler
    /\ inflight \in { <<Received(b1), Received(b2)>> : b1 \in PairBodies, b2 \in PairBodies }
    /\ verification_token = <<>>
    /\ http = NoHttp

\* handle_request line 301 for request r: the classifier on r's own payload
PairParse(r) ==
    /\ inflight[r].pc = "received"
    /\ LET p == parse_feishu_request(inflight[r].body) IN
       inflight' = [inflight EXCEPT ![r].pc = "mapping",
                                    ![r].body = payload_after_parse(inflight[r].body),
                                    ![r].ticket_type = p.ticket_type,
                                    ![r].record_data = p.record_data.d]
    /\ UNCHANGED <<pc, body, received, hint, ticket_type, record_data, embedImages, built,
                   calls, api_reply, result, response, pure, handler, httpVars>>

\* one loop iteration of map_story_fields / map_bug_fields for request r
PairMapEntry(r) ==
    /\ inflight[r].pc = "mapping"
    /\ inflight[r].next <= Len(inflight[r].record_data)
    /\ LET q == inflight[r]
           e == q.record_data[q.next]
           o == entry_step(handler, q.ticket_type, q.acc, e[1], e[2])
       IN  /\ handler' = o.handler
           /\ inflight' = [inflight EXCEPT ![r].acc = o.acc,
                                           ![r].next = q.next + 1,
                                           ![r].overlapped =
                                               q.overlapped \/ MidPass(inflight[3 - r])]
    /\ UNCHANGED <<pc, body, received, hint, ticket_type, record_data, embedImages, built,
                   calls, api_reply, result, response, pure, httpVars>>

\* the rest of build_story / build_bug after the loop, and the one submission
\* of _create_story / _create_bug when the build returned
PairSubmit(r) ==
    /\ inflight[r].pc = "mapping"
    /\ inflight[r].next > Len(inflight[r].record_data)
    /\ LET q == inflight[r]
           b == finish_on(handler,
                          finish_build(q.acc,
                                       IF q.ticket_type = "story" THEN "name" ELSE "title",
                                       TRUE))
       IN  inflight' = [inflight EXCEPT
                           ![r].pc = "done",
                           ![r].built = b,
                           ![r].calls = IF b.status = "ok"
                                        THEN <<[kind |-> q.ticket_type,
                                                fields |-> b.tapd_fields]>>
                                        ELSE <<>>]
    /\ UNCHANGED <<pc, body, received, hint, ticket_type, record_data, embedImages, built,
                   calls, api_reply, result, response, pure, handler, httpVars>>

NextPair == \E r \in 1..2 : PairParse(r) \/ PairMapEntry(r) \/ PairSubmit(r)

SpecPair == InitPair /\ [][NextPair]_vars

----------------------------------------------------------------------------
(* json.loads(body_str) of main.py 141: the decoder of the standard        *)
(* library (json/decoder.py, json/scanner.py) on a text.                   *)

\* WHITESPACE_STR
JsonSpace == {" ", "\t", "\n", "\r"}

\* the characters \x00-\x1f, which a JSON string may not hold unescaped
ControlChars ==
    { "u0000", "u0001", "u0002", "u0003", "u0004", "u0005", "u0006", "u0007",
      "u0008", "\t", "\n", "u000b", "\f", "\r", "u000e", "u000f",
      "u0010", "u0011", "u0012", "u0013", "u0014", "u0015", "u0016", "u0017",
      "u0018", "u0019", "u001a", "u001b", "u001c", "u001d", "u001e", "u001f" }

\* BACKSLASH: the one-character escapes
Backslash ==
    { <<"\"", "\"">>, <<"\\", "\\">>, <<"/", "/">>, <<"b", "u0008">>,
      <<"f", "\f">>, <<"n", "\n">>, <<"r", "\r">>, <<"t", "\t">> }

HexChars == <<"0","1","2","3","4","5","6","7","8","9","a","b","c","d","e","f">>
HexCapitals == <<"0","1","2","3","4","5","6","7","8","9","A","B","C","D","E","F">>

\* the characters U+0020 to U+007E in the order of their code points
AsciiByCode ==
    << " ", "!", "\"", "#", "$", "%", "&", "'", "(", ")", "*", "+", ",", "-", ".", "/",
       "0", "1", "2", "3", "4", "5", "6", "7", "8", "9", ":", ";", "<", "=", ">", "?",
       "@", "A", "B", "C", "D", "E", "F", "G", "H", "I", "J", "K", "L", "M", "N", "O",
       "P", "Q", "R", "S", "T", "U", "V", "W", "X", "Y", "Z", "[", "\\", "]", "^", "_",
       "u0060", "a", "b", "c", "d", "e", "f", "g", "h", "i", "j", "k", "l", "m", "n", "o",
       "p", "q", "r", "s", "t", "u", "v", "w", "x", "y", "z", "{", "|", "}", "~" >>

\* the code points of the CJK characters of the model, one token each ("ming"
\* is U+540D of the label mingcheng, "ming4" is U+547D of the severity zhi ming)
CjkByCode ==
    { <<19968, "yi">>, <<20005, "yan">>, <<20013, "zhong">>, <<20182, "ta">>,
      <<20219, "ren">>, <<20302, "di">>, <<20851, "guan">>, <<20854, "qi">>,
      <<21153, "wu4">>, <<21333, "dan">>, <<21517, "ming">>, <<21629, "ming4">>,
      <<22270, "tu">>, <<24314, "jian">>, <<24613, "ji2">>, <<25130, "jie">>,
      <<25552, "ti2">>, <<26080, "wu">>, <<26631, "biao">>, <<27714, "qiu">>,
      <<29255, "pian">>, <<31034, "shi">>, <<31216, "cheng">>, <<32039, "jin3">>,
      <<32570, "que">>, <<33268, "zhi">>, <<33324, "ban">>, <<35201, "yao">>,
      <<35758, "yi4">>, <<37325, "zhong4">>, <<38519, "xian">>, <<38656, "xu">>,
      <<39064, "ti">>, <<39640, "gao">> }

IsDecimal(c) == \E k \in 1..10 : DigitChars[k] = c
DecimalValue(c) == (CHOOSE k \in 1..10 : DigitChars[k] = c) - 1
IsHex(c) == \E k \in 1..16 : HexChars[k] = c \/ HexCapitals[k] = c
HexValue(c) == (CHOOSE k \in 1..16 : HexChars[k] = c \/ HexCapitals[k] = c) - 1

\* text t holds the word w at position i
WordAt(t, i, w) == i + Len(w) - 1 <= Len(t) /\ SubSeq(t, i, i + Len(w) - 1) = w

\* four hexadecimal digits stand at position i of t
HexAt(t, i) == i + 3 <= Len(t) /\ \A k \in i..(i + 3) : IsHex(t[k])

\* int(esc, 16) of the four digits at position i
HexNumber(t, i) ==
    ((HexValue(t[i]) * 16 + HexValue(t[i + 1])) * 16 + HexValue(t[i + 2])) * 16
        + HexValue(t[i + 3])

RECURSIVE HexName(_, _)
\* n in hexadecimal, at least `width` digits, as one string
HexName(n, width) ==
    IF n < 16 /\ width <= 1 THEN HexChars[n + 1]
    ELSE HexName(n \div 16, width - 1) \o HexChars[(n % 16) + 1]

\* chr(n): the character of code point n; "" (which is no character) for a
\* code point outside the model's alphabet
CharOfCode(n) ==
    IF n \in 32..126 THEN AsciiByCode[n - 31]
    ELSE IF n = 9 THEN "\t"
    ELSE IF n = 10 THEN "\n"
    ELSE IF n = 12 THEN "\f"
    ELSE IF n = 13 THEN "\r"
    ELSE IF TableHas(CjkByCode, n) THEN TableGet(CjkByCode, n)
    ELSE IF ("u" \o HexName(n, 4)) \in Chars THEN "u" \o HexName(n, 4)
    ELSE ""

RECURSIVE SkipSpace(_, _)
\* WHITESPACE.match(s, i).end()
SkipSpace(t, i) ==
    IF i <= Len(t) /\ t[i] \in JsonSpace THEN SkipSpace(t, i + 1) ELSE i

\* What a scanner returns: a value and the position after it, or no value
\* (JSONDecodeError, StopIteration).  known tells that the value is one of
\* the model's: it holds no float, no character outside the alphabet and no
\* key without a name.
NoJson == [ok |-> FALSE, v |-> VNull, i |-> 0, known |-> TRUE]
Scanned(v, i, known) == [ok |-> TRUE, v |-> v, i |-> i, known |-> known]

\* the character of code point uni, or of the pair of surrogates uni, uni2,
\* and the position after the escape that began at the backslash at i
joined_escape(i, uni, uni2) ==
    IF uni2 \in 56320..57343
    THEN Scanned(CharOfCode(65536 + (uni - 55296) * 1024 + (uni2 - 56320)), i + 12, TRUE)
    ELSE Scanned(CharOfCode(uni), i + 6, TRUE)

\* the escape \uXXXX at position i (the backslash), XXXX being uni: a high
\* surrogate takes the low surrogate escape that follows it
unicode_escape(t, i, uni) ==
    IF uni \in 55296..56319 /\ WordAt(t, i + 6, <<"\\", "u">>) /\ i + 12 <= Len(t)
    THEN IF HexAt(t, i + 8) THEN joined_escape(i, uni, HexNumber(t, i + 8))
         ELSE NoJson
    ELSE Scanned(CharOfCode(uni), i + 6, TRUE)

RECURSIVE scanstring(_, _, _)

\* the escape was decoded: its character joins those read so far
after_escape(t, acc, esc) ==
    IF ~esc.ok THEN NoJson ELSE scanstring(t, esc.i, Append(acc, esc.v))

\* scanstring(s, end, strict=True) from the position after the opening
\* quote; acc holds the characters read so far
scanstring(t, i, acc) ==
    IF i > Len(t) THEN NoJson
    ELSE IF t[i] = "\""
    THEN Scanned(VStr(acc), i + 1, \A k \in 1..Len(acc) : acc[k] # "")
    ELSE IF t[i] \in ControlChars THEN NoJson
    ELSE IF t[i] # "\\" THEN scanstring(t, i + 1, Append(acc, t[i]))
    ELSE IF i + 1 > Len(t) THEN NoJson
    ELSE IF t[i + 1] = "u"
    THEN IF ~HexAt(t, i + 2) \/ i + 6 > Len(t) THEN NoJson
         ELSE after_escape(t, acc, unicode_escape(t, i, HexNumber(t, i + 2)))
    ELSE IF TableHas(Backslash, t[i + 1])
    THEN scanstring(t, i + 2, Append(acc, TableGet(Backslash, t[i + 1])))
    ELSE NoJson

\* The keys of the decoded object.  A key of the code is a str; the model
\* names it by an atomic string.  A key of ASCII characters is named by its
\* characters written one after the other; a Chinese label is named by its
\* transliteration.  The names of the labels are taken: a key of ASCII
\* characters that spells one of them ("biaoti") is another key than the
\* label in the code and has no name in the model, and neither has a key
\* with a character outside ASCII that is no label below.

\* the names the model gives to the Chinese labels
LabelNames ==
    DOMAIN story_field_mapping \cup DOMAIN bug_field_mapping \cup {"leixing"}

\* the labels all of whose characters are characters of the model
LabelsHeld ==
    { << <<"biao", "ti">>, "biaoti" >>,
      << <<"ming", "cheng">>, "mingcheng" >>,
      << <<"xu", "qiu", "ming", "cheng">>, "xuqiumingcheng" >>,
      << <<"que", "xian", "biao", "ti">>, "quexianbiaoti" >>,
      << <<"tu", "pian">>, "tupian" >>,
      << <<"jie", "tu">>, "jietu" >> }

\* the characters that are one character of a name
PlainChars == AsciiChars \ {"u0060"}

IsPlain(chars) == \A k \in 1..Len(chars) : chars[k] \in PlainChars

RECURSIVE Spelled(_)
\* the characters written one after the other
Spelled(chars) ==
    IF chars = <<>> THEN "" ELSE Head(chars) \o Spelled(Tail(chars))

\* the model has a name for the key, which no other key has
KeyHeld(chars) ==
    IF IsPlain(chars) THEN Spelled(chars) \notin LabelNames
    ELSE TableHas(LabelsHeld, chars)

\* the name of a key the model holds
KeyName(chars) ==
    IF IsPlain(chars) THEN Spelled(chars) ELSE TableGet(LabelsHeld, chars)

\* pairs with d[key] = val: a key that is there keeps its place
PairsSet(d, key, val) ==
    IF HasKey(d, key)
    THEN [j \in 1..Len(d) |-> IF d[j][1] = key THEN <<key, val>> ELSE d[j]]
    ELSE Append(d, <<key, val>>)

RECURSIVE DigitsEnd(_, _)
\* the position after the run of decimal digits that starts at i
DigitsEnd(t, i) ==
    IF i <= Len(t) /\ IsDecimal(t[i]) THEN DigitsEnd(t, i + 1) ELSE i

RECURSIVE NatOf(_)
\* int() of a run of decimal digits
NatOf(digits) ==
    IF digits = <<>> THEN 0
    ELSE NatOf(SubSeq(digits, 1, Len(digits) - 1)) * 10
            + DecimalValue(digits[Len(digits)])

\* the integer part the number pattern matches at i, -?(0|[1-9][0-9]*): the
\* position after it, 0 when there is none; d is the position after the sign
digits_end(t, d) ==
    IF d > Len(t) \/ ~IsDecimal(t[d]) THEN 0
    ELSE IF t[d] = "0" THEN d + 1
    ELSE DigitsEnd(t, d)

IntegerEnd(t, i) == digits_end(t, IF i <= Len(t) /\ t[i] = "-" THEN i + 1 ELSE i)

\* the position after the fraction (\.[0-9]+)? that may stand at i
FractionEnd(t, i) ==
    IF i + 1 <= Len(t) /\ t[i] = "." /\ IsDecimal(t[i + 1]) THEN DigitsEnd(t, i + 1)
    ELSE i

\* the position after the exponent ([eE][-+]?[0-9]+)? that may stand at i
ExponentEnd(t, i) ==
    IF i + 1 <= Len(t) /\ t[i] \in {"e", "E"} /\ IsDecimal(t[i + 1])
    THEN DigitsEnd(t, i + 1)
    ELSE IF i + 2 <= Len(t) /\ t[i] \in {"e", "E"} /\ t[i + 1] \in {"-", "+"}
            /\ IsDecimal(t[i + 2])
    THEN DigitsEnd(t, i + 2)
    ELSE i

\* the number whose integer part ends before position e and whose fraction
\* and exponent end before position f: int(integer) when f = e, a float
\* otherwise.  The model's numbers are the integers.
number_value(t, i, e, f) ==
    IF f # e THEN Scanned(VNull, f, FALSE)
    ELSE IF t[i] = "-" THEN Scanned(VNum(0 - NatOf(SubSeq(t, i + 1, e - 1))), e, TRUE)
    ELSE Scanned(VNum(NatOf(SubSeq(t, i, e - 1))), e, TRUE)

\* the number whose integer part ends before position e (0: there is none),
\* and the float constants NaN, Infinity, -Infinity
number_to(t, i, e) ==
    IF e # 0 THEN number_value(t, i, e, ExponentEnd(t, FractionEnd(t, e)))
    ELSE IF WordAt(t, i, <<"N", "a", "N">>) THEN Scanned(VNull, i + 3, FALSE)
    ELSE IF WordAt(t, i, <<"I", "n", "f", "i", "n", "i", "t", "y">>)
    THEN Scanned(VNull, i + 8, FALSE)
    ELSE IF WordAt(t, i, <<"-", "I", "n", "f", "i", "n", "i", "t", "y">>)
    THEN Scanned(VNull, i + 9, FALSE)
    ELSE NoJson

\* match_number at position i
scan_number(t, i) == number_to(t, i, IntegerEnd(t, i))

RECURSIVE scan_once(_, _)
RECURSIVE JSONObject(_, _, _, _)
RECURSIVE JSONArray(_, _, _, _)

\* the end of a member: `}` closes the object, `,` announces the next member
member_end(t, e, pairs, known) ==
    IF e > Len(t) THEN NoJson
    ELSE IF t[e] = "}" THEN Scanned(VDict(pairs), e + 1, known)
    ELSE IF t[e] # "," THEN NoJson
    ELSE JSONObject(t, SkipSpace(t, e + 1), pairs, known)

\* the member's value was scanned: pairs[key] = value; a key without a name
\* leaves the scan going, for the errors behind it, and the value unknown
member_value(t, pairs, known, key, val) ==
    IF ~val.ok THEN NoJson
    ELSE IF ~KeyHeld(key) THEN member_end(t, SkipSpace(t, val.i), pairs, FALSE)
    ELSE member_end(t, SkipSpace(t, val.i), PairsSet(pairs, KeyName(key), val.v),
                    known /\ val.known)

\* the `:` after a key, and the value after it
member_colon(t, colon, pairs, known, key) ==
    IF colon > Len(t) \/ t[colon] # ":" THEN NoJson
    ELSE member_value(t, pairs, known, key, scan_once(t, SkipSpace(t, colon + 1)))

\* the member's key was scanned
member_key(t, pairs, known, key) ==
    IF ~key.ok THEN NoJson
    ELSE member_colon(t, SkipSpace(t, key.i), pairs, known /\ key.known, key.v.s)

\* JSONObject from the position where a member must start; pairs holds the
\* members read so far
JSONObject(t, i, pairs, known) ==
    IF i > Len(t) \/ t[i] # "\"" THEN NoJson
    ELSE member_key(t, pairs, known, scanstring(t, i + 1, <<>>))

\* the end of an element: `]` closes the array, `,` announces the next element
element_end(t, e, items, known) ==
    IF e > Len(t) THEN NoJson
    ELSE IF t[e] = "]" THEN Scanned(VList(items), e + 1, known)
    ELSE IF t[e] # "," THEN NoJson
    ELSE JSONArray(t, SkipSpace(t, e + 1), items, known)

\* the element was scanned
element_value(t, items, known, val) ==
    IF ~val.ok THEN NoJson
    ELSE element_end(t, SkipSpace(t, val.i), Append(items, val.v), known /\ val.known)

\* JSONArray from the position where an element must start
JSONArray(t, i, items, known) == element_value(t, items, known, scan_once(t, i))

\* the object or the array whose bracket stands before position i, which
\* is the first position after the whitespace that follows the bracket
scan_object(t, i) ==
    IF i <= Len(t) /\ t[i] = "}" THEN Scanned(VDict(<<>>), i + 1, TRUE)
    ELSE JSONObject(t, i, <<>>, TRUE)

scan_array(t, i) ==
    IF i <= Len(t) /\ t[i] = "]" THEN Scanned(VList(<<>>), i + 1, TRUE)
    ELSE JSONArray(t, i, <<>>, TRUE)

\* scan_once(string, idx)
scan_once(t, i) ==
    IF i > Len(t) THEN NoJson
    ELSE IF t[i] = "\"" THEN scanstring(t, i + 1, <<>>)
    ELSE IF t[i] = "{" THEN scan_object(t, SkipSpace(t, i + 1))
    ELSE IF t[i] = "[" THEN scan_array(t, SkipSpace(t, i + 1))
    ELSE IF WordAt(t, i, <<"n", "u", "l", "l">>) THEN Scanned(VNull, i + 4, TRUE)
    ELSE IF WordAt(t, i, <<"t", "r", "u", "e">>) THEN Scanned(VBool(TRUE), i + 4, TRUE)
    ELSE IF WordAt(t, i, <<"f", "a", "l", "s", "e">>)
    THEN Scanned(VBool(FALSE), i + 5, TRUE)
    ELSE scan_number(t, i)

\* the value was scanned: it must be followed by nothing but whitespace.  A
\* text whose value the model cannot hold has no value in the model.
whole_text(text, r) ==
    IF r.ok /\ SkipSpace(text, r.i) = Len(text) + 1
    THEN IF r.known THEN [ok |-> TRUE, value |-> r.v] ELSE NoValue(text)
    ELSE [ok |-> FALSE, value |-> VNull]

\* json.loads(text): the value, or JSONDecodeError (ok = FALSE)
json_loads(text) == whole_text(text, scan_once(text, SkipSpace(text, 1)))

----------------------------------------------------------------------------
(* The webhook endpoint in front of handle_request: main.feishu_webhook    *)
(* (main.py 87-178) with FeishuWebhookHandler.verify_request               *)
(* (webhook_service.py 54-77).  A request is its body text and the three   *)
(* signature headers, each absent (VNull) or a string.                     *)

\* config.feishu.verification_token: "" unless the config file sets it
\* (config.py 196)
ConfiguredTokens == { <<>>, <<"k">> }

\* hashlib.sha256(...).hexdigest(), idealised: the digest determines the
\* text and is no text a caller would send by chance
sha256_hexdigest(text) == <<"sha256">> \o text

\* FeishuWebhookHandler.verify_request
verify_request(token, timestamp, nonce, signature, body_text) ==
    IF token = <<>> THEN TRUE
    ELSE sha256_hexdigest(timestamp \o nonce \o token \o body_text) = signature

\* body texts on the wire: five objects (one of them spaced out, with an
\* escaped label and a nested record), a list, a text that is no JSON, a
\* blank one and the empty one
W_story     == <<"{", "\"", "ming", "cheng", "\"", ":", "\"", "N", "\"", "}">>
W_titled    == <<"{", " ", "\"", "r", "e", "c", "o", "r", "d", "\"", " ", ":", " ",
                 "{", "\"", "\\", "u", "6", "8", "0", "7", "\\", "u", "9", "8", "9", "8",
                 "\"", ":", "\"", "T", "\"", "}", "}", "\n">>
W_challenge == <<"{", "\"", "c", "h", "a", "l", "l", "e", "n", "g", "e", "\"", ":",
                 "\"", "c", "1", "\"", "}">>
W_nothing   == <<"{", "}">>
W_odd       == <<"{", "\"", "r", "e", "c", "o", "r", "d", "\"", ":", "5", "}">>
W_list      == <<"[", "1", "]">>
W_broken    == <<"{">>
W_blank     == <<" ", "\f">>

WireTexts ==
    { W_story, W_titled, W_challenge, W_nothing, W_odd, W_list, W_broken, W_blank, <<>> }

HeaderValues(strings) == { VNull } \cup { VStr(x) : x \in strings }

\* x_lark_request_timestamp or ""
HeaderOrEmpty(h) == IF h = VNull THEN <<>> ELSE h.s

\* the signatures a sender may attach to a text: none, an empty one, the
\* digest under the right or a wrong key for any of the header values, junk
Signatures(text) ==
    HeaderValues({ <<>>, <<"z">> }
        \cup { sha256_hexdigest(ts \o n \o key \o text) :
                 ts \in { <<>>, <<"1">> }, n \in { <<>>, <<"n">> },
                 key \in { <<"k">>, <<"x">> } })

\* the answers the endpoint gives without calling handle_request
empty_body_response == [status |-> "error", message |-> <<"EmptyBody">>]
HttpError(code, detail) == [status |-> "http_error", code |-> code, message |-> detail]

InitVerify ==
    /\ Idle
    /\ handler = Handler
    /\ inflight = <<>>
    /\ verification_token \in ConfiguredTokens
    /\ http = NoHttp

\* a POST arrives at /webhook/feishu (main.py 87-130)
Receive ==
    /\ pc = "idle"
    /\ \E text \in WireTexts :
       \E ts \in HeaderValues({ <<"1">> }), n \in HeaderValues({ <<"n">> }),
          sig \in Signatures(text) :
          http' = [text |-> text, timestamp |-> ts, nonce |-> n, signature |-> sig]
    /\ pc' = "received"
    /\ UNCHANGED <<body, received, hint, ticket_type, record_data, embedImages, built, calls,
                   api_reply, result, response, pure, pairVars, verification_token>>

\* main.py 136-138: an empty or blank body is answered at once
EmptyBody ==
    /\ pc = "received"
    /\ Strip(http.text) = <<>>
    /\ response' = empty_body_response
    /\ pc' = "rejected"
    /\ UNCHANGED <<body, received, hint, ticket_type, record_data, embedImages, built, calls,
                   api_reply, result, pure, pairVars, httpVars>>

\* main.py 140-144: a body that is no JSON gives HTTP 400
InvalidJson ==
    /\ pc = "received"
    /\ Strip(http.text) # <<>>
    /\ ~json_loads(http.text).ok
    /\ response' = HttpError(400, <<"InvalidJSON">>)
    /\ pc' = "rejected"
    /\ UNCHANGED <<body, received, hint, ticket_type, record_data, embedImages, built, calls,
                   api_reply, result, pure, pairVars, httpVars>>

\* main.py 148-156: the signature is looked at only when the header is there
\* and not empty
SignatureChecked ==
    /\ http.signature # VNull
    /\ http.signature.s # <<>>

SignatureFails ==
    /\ SignatureChecked
    /\ ~verify_request(verification_token, HeaderOrEmpty(http.timestamp),
                       HeaderOrEmpty(http.nonce), http.signature.s, http.text)

\* main.py 155-156: HTTP 401
RejectSignature ==
    /\ pc = "received"
    /\ Strip(http.text) # <<>>
    /\ json_loads(http.text).ok
    /\ SignatureFails
    /\ response' = HttpError(401, <<"SignatureCheckFailed">>)
    /\ pc' = "rejected"
    /\ UNCHANGED <<body, received, hint, ticket_type, record_data, embedImages, built, calls,
                   api_reply, result, pure, pairVars, httpVars>>

\* main.py 159: webhook_handler.handle_request(body_json), up to the return
\* of parse_feishu_request (webhook_service.py 296-301)
HandleRequest ==
    /\ pc = "received"
    /\ Strip(http.text) # <<>>
    /\ json_loads(http.text).ok
    /\ ~SignatureFails
    /\ json_loads(http.text).value.t = "dict"
    /\ LET b == json_loads(http.text).value.d
           p == parse_feishu_request(b)
       IN  /\ body' = IF handle_challenge(b) # NoResponse \/ p.raised
                       THEN b ELSE payload_after_parse(b)
           /\ received' = b
           /\ IF handle_challenge(b) # NoResponse
              THEN /\ response' = handle_challenge(b)
                   /\ pc' = "done"
                   /\ UNCHANGED <<hint, ticket_type, record_data>>
              ELSE IF p.raised
              THEN /\ response' = server_error_response
                   /\ pc' = "fault"
                   /\ hint' = p.hint
                   /\ UNCHANGED <<ticket_type, record_data>>
              ELSE /\ pc' = "parsed"
                   /\ hint' = p.hint
                   /\ ticket_type' = p.ticket_type
                   /\ record_data' = p.record_data
                   /\ UNCHANGED response
    /\ UNCHANGED <<embedImages, built, calls, api_reply, result, pure, pairVars, httpVars>>

\* main.py 159 and 168-178 for a body that is JSON but no object: the
\* membership test of handle_challenge or the .get of parse_feishu_request
\* raises (webhook_service.py 85-86, 114-119), and the endpoint answers the
\* server error
HandleNonObject ==
    /\ pc = "received"
    /\ Strip(http.text) # <<>>
    /\ json_loads(http.text).ok
    /\ ~SignatureFails
    /\ json_loads(http.text).value.t # "dict"
    /\ response' = server_error_response
    /\ pc' = "fault"
    /\ UNCHANGED <<body, received, hint, ticket_type, record_data, embedImages, built, calls,
                   api_reply, result, pure, pairVars, httpVars>>

NextVerify ==
    \/ Receive \/ EmptyBody \/ InvalidJson \/ RejectSignature \/ HandleRequest
    \/ HandleNonObject \/ CreateTicket \/ Finish

SpecVerify == InitVerify /\ [][NextVerify]_vars

----------------------------------------------------------------------------
(* Vocabulary of the properties.                                           *)

TypeHintKeys == {"ticket_type", "type", "leixing"}

NotTypeHint(e) == e[1] \notin TypeHintKeys

\* the request in flight went through create_ticket as a story or a bug
BuiltRequest == pc = "done" /\ ticket_type \in {"story", "bug"}

\* the field mapper returned for the request in flight (it did not raise)
MapperReturned == BuiltRequest /\ built.status \in {"ok", "ValueError"}

TargetOf(type, label) ==
    IF type = "story" THEN story_target(label) ELSE bug_target(label)

\* the entries of rec the mapping pass stores under `key`: value neither null nor ""
LiveIndices(type, rec, key) ==
    { i \in 1..Len(rec) : ~is_skipped(rec[i][2]) /\ TargetOf(type, rec[i][1]) = key }

\* the value of the last entry of rec stored under `key`
LastLive(type, rec, key) == rec[SetMax(LiveIndices(type, rec, key))][2]

MandatoryKey(type) == IF type = "story" THEN "name" ELSE "title"

\* rec lacks the mandatory title-equivalent field of its ticket type: no entry
\* supplies it, or the one that does is empty once cleaned; for a task, none of
\* the three title labels has a non-empty value
MandatoryMissing(type, rec) ==
    IF type = "task" THEN ~Truthy(task_fields(rec).name)
    ELSE \/ LiveIndices(type, rec, MandatoryKey(type)) = {}
         \/ _clean_value(LastLive(type, rec, MandatoryKey(type))) = <<>>

MissingTitleMessage(type) ==
    <<"ValidationFailed", IF type = "story" THEN "StoryNeedsName" ELSE "BugNeedsTitle">>

----------------------------------------------------------------------------
(* C1.  A payload without envelope and without any type-hint key           *)
(* (ticket_type, type, 类型) is classified bug when the record has a title  *)
(* label (标题 or title) and story when it has neither.                     *)
C1_AbsentHintInfersFromTitle ==
    (pc = "parsed" /\ ~HasKey(received, "record")
        /\ \A k \in TypeHintKeys : ~HasKey(received, k))
    => ticket_type = IF HasKey(received, "biaoti") \/ HasKey(received, "title")
                     THEN "bug" ELSE "story"

(* C2.  For story and bug, a record that yields no mapped name / title, or *)
(* an empty one, makes the build fail with the validation error: the       *)
(* result is a failure whose message names the missing title and the       *)
(* client is never called.                                                 *)
C2_MissingTitleIsValidationFailure ==
    (BuiltRequest /\ MandatoryMissing(ticket_type, record_data.d))
    => /\ built.status = "ValueError"
       /\ ~result.success
       /\ result.error_message = MissingTitleMessage(ticket_type)
       /\ calls = <<>>

(* C3 as stated.  For story, bug and task alike, create_ticket on a record *)
(* lacking the mandatory title-equivalent field fails before any client    *)
(* call.                                                                   *)
C3_AllTypesFailBeforeCall ==
    (pc = "done" /\ ticket_type \in {"story", "bug", "task"}
        /\ MandatoryMissing(ticket_type, record_data.d))
    => ~result.success /\ calls = <<>>

(* C3 amended.  For story and bug, create_ticket on a record lacking the   *)
(* mandatory title-equivalent field fails with no client call, and the     *)
(* result is the same whatever the client would have answered (every run   *)
(* of the same input ends the same way).  A task has no mandatory-field    *)
(* check: the client is called once, with the empty name.                  *)
C3_StoryBugFailBeforeCall ==
    (pc = "done" /\ ticket_type \in {"story", "bug", "task"}
        /\ MandatoryMissing(ticket_type, record_data.d))
    => IF ticket_type = "task"
       THEN Len(calls) = 1 /\ calls[1].kind = "task" /\ ~Truthy(calls[1].fields.name)
       ELSE /\ ~result.success
            /\ calls = <<>>
            /\ \A reply \in ApiReplies :
                  LET o == create_ticket(ticket_type, record_data, reply) IN
                  o.result = result /\ o.calls = <<>>

C3_Witness ==
    /\ pc = "done" /\ ticket_type = "bug"
    /\ MandatoryMissing(ticket_type, record_data.d)
    /\ HasKey(record_data.d, "miaoshu")
    /\ ~result.success

(* C4.  A successful build carries the workspace_id entry with the         *)
(* configured identifier, whatever the record holds (a record key          *)
(* workspace_id included); the mapper never produces the key, and a build  *)
(* that failed the mandatory-field check has not injected it.              *)
C4_WorkspaceIdInjected ==
    /\ "workspace_id" \notin DOMAIN built.mapped
    /\ built.status # "ok" => "workspace_id" \notin DOMAIN built.tapd_fields
    /\ built.status = "ok" =>
          /\ "workspace_id" \in DOMAIN built.tapd_fields
          /\ built.tapd_fields["workspace_id"] = workspace_id
          /\ pc # "built" =>
                /\ Len(calls) = 1
                /\ calls[1].fields["workspace_id"] = workspace_id

C4_Witness ==
    /\ BuiltRequest /\ built.status = "ok"
    /\ HasKey(record_data.d, "workspace_id")
    /\ DictGet(record_data.d, "workspace_id", VNull) = VStr(IN_999)
    /\ built.tapd_fields["workspace_id"] = workspace_id

(* C5.  With an envelope (key record) the working record is the inner      *)
(* value, and the hint is the envelope's ticket_type if present, else its  *)
(* type, else story; type keys inside the inner record do not count.       *)
C5_EnvelopeHint ==
    (pc = "parsed" /\ HasKey(received, "record")) =>
        LET inner == DictGet(received, "record", VNull) IN
        /\ record_data = VDict(SelectSeq(inner.d, NotTypeHint))
        /\ hint = IF HasKey(received, "ticket_type") THEN DictGet(received, "ticket_type", VNull)
                  ELSE IF HasKey(received, "type") THEN DictGet(received, "type", VNull)
                  ELSE VStr(S_story)
        /\ (~HasKey(received, "ticket_type") /\ ~HasKey(received, "type")) => ticket_type = "story"

C5_Witness ==
    /\ pc = "parsed" /\ HasKey(received, "record")
    /\ ~HasKey(received, "ticket_type") /\ ~HasKey(received, "type")
    /\ DictGet(DictGet(received, "record", VNull).d, "leixing", VNull) = VStr(S_quexian)
    /\ HasKey(record_data.d, "biaoti")
    /\ ticket_type = "story"

(* C6.  The working record returned by the classifier holds none of the    *)
(* keys ticket_type, type, 类型, and every other entry of the record as it  *)
(* came in, unchanged and in place.                                        *)
C6_TypeKeysStripped ==
    pc = "parsed" =>
        LET source == IF HasKey(received, "record")
                      THEN DictGet(received, "record", VNull).d ELSE received
        IN  /\ \A k \in TypeHintKeys : ~HasKey(record_data.d, k)
            /\ record_data.d = SelectSeq(source, NotTypeHint)

C6_Witness ==
    /\ pc = "parsed" /\ ~HasKey(received, "record")
    /\ HasKey(received, "leixing") /\ HasKey(received, "miaoshu")
    /\ record_data.d = << <<"miaoshu", VStr(IN_x)>> >>

(* C7.  The classifier never fails: for every payload it returns a ticket  *)
(* type among story, bug and task.                                         *)
C7_ClassifierNeverFails ==
    /\ pc # "fault"
    /\ pc = "parsed" => ticket_type \in {"story", "bug", "task"}

(* C8.  After the mapping pass, a priority / priority_label value (for a   *)
(* bug also a severity value) is a token of the vocabulary table, or the   *)
(* trimmed input when no table key equals it; 高 and 2 give high, an        *)
(* unknown label is kept.                                                  *)
C8_VocabularyRoundTrip ==
    MapperReturned =>
        \A k \in (DOMAIN built.mapped) \cap {"priority", "priority_label", "severity"} :
            LET table == IF k = "severity" THEN severity_mapping ELSE priority_mapping
                given == Strip(PyStr(LastLive(ticket_type, record_data.d, k)))
                token == built.mapped[k]
            IN  /\ LiveIndices(ticket_type, record_data.d, k) # {}
                /\ \/ token \in TableValues(table)
                   \/ token = given /\ ~TableHas(table, given)
                /\ (k # "severity" /\ given \in {IN_gao, <<"2">>})
                      => token = <<"h", "i", "g", "h">>
                /\ given = IN_P9 => token = IN_P9

C8_Witness ==
    /\ MapperReturned
    /\ DictGet(record_data.d, "youxianji", VNull) = VStr(IN_gao_sp)
    /\ "priority_label" \in DOMAIN built.mapped
    /\ built.mapped["priority_label"] = <<"h", "i", "g", "h">>

\* the resolution the property describes: the first key present among
\* url, file_url, src, tmp_url
FirstPresentUrl(d) ==
    IF HasKey(d, "url") THEN DictGet(d, "url", VNull)
    ELSE IF HasKey(d, "file_url") THEN DictGet(d, "file_url", VNull)
    ELSE IF HasKey(d, "src") THEN DictGet(d, "src", VNull)
    ELSE DictGet(d, "tmp_url", VNull)

\* an attachment-object all of whose values are non-empty strings
PlainAttachment(v) ==
    v.t = "dict" /\ \A i \in 1..Len(v.d) : v.d[i][2].t = "str" /\ v.d[i][2].s # <<>>

(* C9.  For an attachment-object in an image-carrier field the mapper's    *)
(* extractor takes the URL of the first present key among url, file_url,   *)
(* src, tmp_url and keeps it iff it is an image URL; an object whose only  *)
(* key is tmp_url yields its URL.                                          *)
C9_AttachmentKeyOrder ==
    MapperReturned =>
        \A i \in 1..Len(record_data.d) :
            LET e == record_data.d[i] IN
            ( /\ TargetOf(ticket_type, e[1]) = "_images"
              /\ PlainAttachment(e[2])
              /\ \A j \in 1..Len(record_data.d) :
                    j # i => TargetOf(ticket_type, record_data.d[j][1]) # "_images" )
            => LET url == FirstPresentUrl(e[2].d) IN
               built.image_urls = IF url.t = "str" /\ _is_image_url(url.s)
                                  THEN <<url.s>> ELSE <<>>

\* the entries of a record that are not image carriers
NotImageCarrier(e) == story_target(e[1]) # "_images"

(* C10.  Image extraction inside the mapping pass never raises: whatever   *)
(* the value of an image-carrier entry, the pass ends and the other        *)
(* entries are mapped as if that entry were absent.                        *)
C10_ExtractionNeverRaises ==
    BuiltRequest =>
        LET others == SelectSeq(record_data.d, NotImageCarrier)
            alone  == IF ticket_type = "story" THEN map_story_fields(others)
                                               ELSE map_bug_fields(others)
        IN  /\ built.status # "Exception"
            /\ built.mapped = alone.tapd_data

----------------------------------------------------------------------------
(* Vocabulary of the extraction properties.                                *)

\* a build ran for the request in flight: through create_ticket or directly
BuildRan ==
    /\ pc \in {"done", "returned", "built"}
    /\ built.status # "none"
    /\ record_data.t = "dict"

\* the mapping pass of that build returned
MapperDone == BuildRan /\ built.status \in {"ok", "ValueError"}

\* the image-carrier entries of the record in flight whose value is not skipped
CarrierIndices ==
    { i \in 1..Len(record_data.d) :
        /\ TargetOf(ticket_type, record_data.d[i][1]) = "_images"
        /\ ~is_skipped(record_data.d[i][2]) }

RECURSIVE Ascending(_)
\* the elements of a finite set of integers in increasing order
Ascending(S) ==
    IF S = {} THEN <<>>
    ELSE LET m == CHOOSE x \in S : \A y \in S : x <= y IN <<m>> \o Ascending(S \ {m})

\* where the pieces of s begin: a non-separator at the start or after a separator
PieceStarts(s) ==
    { i \in 1..Len(s) : s[i] \notin Separators /\ (i = 1 \/ s[i - 1] \in Separators) }

\* where the piece beginning at i ends
PieceEnd(s, i) ==
    CHOOSE j \in i..Len(s) :
        /\ \A k \in i..j : s[k] \notin Separators
        /\ j = Len(s) \/ s[j + 1] \in Separators

IsImagePiece(p) == p # <<>> /\ _is_image_url(p)

\* the trimmed, non-empty pieces of a string that are image URLs, in order
ImagePieces(s) ==
    LET starts == Ascending(PieceStarts(s))
        pieces == [k \in 1..Len(starts) |->
                     Strip(SubSeq(s, starts[k], PieceEnd(s, starts[k])))]
    IN  SelectSeq(pieces, IsImagePiece)

\* what one list element contributes: a string itself, an attachment-object
\* its resolved URL, when it is an image URL; anything else nothing
ImageOfElement(item) ==
    IF item.t = "str" THEN (IF _is_image_url(item.s) THEN <<item.s>> ELSE <<>>)
    ELSE IF item.t = "dict"
    THEN LET url == FirstPresentUrl(item.d) IN
         IF url.t = "str" /\ _is_image_url(url.s) THEN <<url.s>> ELSE <<>>
    ELSE <<>>

RECURSIVE ImageElements(_)
\* the elements of a list that are image URLs, in list order, duplicates kept
ImageElements(items) ==
    IF items = <<>> THEN <<>>
    ELSE ImageOfElement(Head(items)) \o ImageElements(Tail(items))

(* C11.  For a string value the extractor yields the trimmed non-empty     *)
(* pieces between runs of comma / semicolon / newline that are image URLs, *)
(* in order; for a list value the elements (resolved URLs) that are image  *)
(* URLs, in list order; duplicates are kept.  Stated for a record with one *)
(* image-carrier entry, whose extraction is the returned image list.       *)
C11_PiecesInOrder ==
    BuildRan =>
        \A i \in CarrierIndices :
            LET v == record_data.d[i][2] IN
            (CarrierIndices = {i} /\ v.t \in {"str", "list"}) =>
                /\ MapperDone
                /\ built.image_urls = IF v.t = "str" THEN ImagePieces(v.s)
                                                     ELSE ImageElements(v.items)

\* the part of an http(s) URL after the host and before the query string
PathOf(url) ==
    LET rest   == IF StartsWith(url, S_https) THEN SubSeq(url, Len(S_https) + 1, Len(url))
                  ELSE SubSeq(url, Len(S_http) + 1, Len(url))
        noQ    == SplitHead(rest, "?")
        slash  == { i \in 1..Len(noQ) : noQ[i] = "/" }
    IN  IF slash = {} THEN <<>>
        ELSE SubSeq(noQ, CHOOSE i \in slash : \A j \in slash : i <= j, Len(noQ))

\* the predicate as the property words it: http(s), and an image extension
\* before the query string (any case) or "image" in the path
AcceptedAsWorded(url) ==
    /\ StartsWith(url, S_http) \/ StartsWith(url, S_https)
    /\ \/ \E ext \in image_extensions : EndsWith(Lower(SplitHead(url, "?")), ext)
       \/ Contains(PathOf(url), S_image)

InSeq(x, seq) == \E j \in 1..Len(seq) : seq[j] = x

(* C12.  The URL-is-image predicate accepts a string iff it starts with    *)
(* http:// or https:// and, the query string removed, ends in an image     *)
(* extension (any case) or has "image" in its path; "image" only in the    *)
(* host name or only in the query string does not count.  Observed on the  *)
(* string elements of a list in the only image-carrier entry: an element   *)
(* is in the returned image list iff the predicate accepted it.            *)
C12_ImagePredicate ==
    MapperDone =>
        \A i \in CarrierIndices :
            LET v == record_data.d[i][2] IN
            (CarrierIndices = {i} /\ v.t = "list") =>
                \A k \in 1..Len(v.items) :
                    v.items[k].t = "str" =>
                        (InSeq(v.items[k].s, built.image_urls)
                            <=> AcceptedAsWorded(v.items[k].s))

RECURSIVE ExtractedInOrder(_)
\* the extractor's results for the image-carrier entries at the given
\* indices of the record in flight, concatenated
ExtractedInOrder(indices) ==
    IF indices = <<>> THEN <<>>
    ELSE _extract_image_urls(record_data.d[Head(indices)][2]).urls
            \o ExtractedInOrder(Tail(indices))

\* the mapper's result for a record of the ticket type in flight
MappedAlone(rec) ==
    IF ticket_type = "story" THEN map_story_fields(rec).tapd_data
                             ELSE map_bug_fields(rec).tapd_data

(* C13.  The mapped fields the mapper returns never hold the marker key    *)
(* _images nor anything that came from an image-carrier entry (they are    *)
(* the mapped fields of the record without those entries), and the         *)
(* returned image list is the concatenation, in record order, of the       *)
(* extractor's results for the image-carrier entries.                      *)
C13_ImagesOutOfBand ==
    MapperDone =>
        /\ "_images" \notin DOMAIN built.mapped
        /\ built.mapped = MappedAlone(SelectSeq(record_data.d, NotImageCarrier))
        /\ built.image_urls = ExtractedInOrder(Ascending(CarrierIndices))

C13_Witness ==
    /\ MapperDone /\ ticket_type = "bug"
    /\ Cardinality(CarrierIndices) = 2
    /\ built.image_urls = <<IN_jpg, IN_png, IN_jpg, IN_png>>
    /\ DOMAIN built.mapped = {"title", "description"}

----------------------------------------------------------------------------
(* Vocabulary of the build properties.                                     *)

\* the build for the request in flight returned
BuildReturned == BuildRan /\ built.status = "ok"

\* the description a set of fields carries; <<>> when it carries none
DescriptionOf(fields) ==
    IF "description" \in DOMAIN fields THEN fields["description"] ELSE <<>>

\* the labeled image block number i, as the property words it
LabeledBlock(i, url) ==
    <<"<", "p", ">", "tu", "pian">> \o NatStr(i) \o <<":", "<", "/", "p", ">", "<", "i", "m", "g", " ", "s", "r", "c", "=", "\"">>
       \o url \o <<"\"", " ", "a", "l", "t", "=", "\"", "tu", "pian">> \o NatStr(i)
       \o <<"\"", " ", "s", "t", "y", "l", "e", "=", "\"", "m", "a", "x", "-", "w", "i", "d", "t", "h", ":", " ", "8", "0", "0", "p", "x", ";", "\"", " ", "/", ">">>

RECURSIVE BlocksFrom(_, _)
\* the blocks k .. n of the image list, one line-break between two blocks
BlocksFrom(k, urls) ==
    IF k > Len(urls) THEN <<>>
    ELSE LabeledBlock(k, urls[k])
            \o (IF k < Len(urls) THEN <<"<", "b", "r", "/", ">">> ELSE <<>>)
            \o BlocksFrom(k + 1, urls)

\* the description with the image blocks appended
WithImages(description, urls) ==
    (IF description # <<>>
     THEN description \o <<"<", "b", "r", "/", ">", "<", "b", "r", "/", ">">>
     ELSE <<>>) \o BlocksFrom(1, urls)

(* C14.  In a build that returns, the description differs from the mapped  *)
(* description iff embedImages is true and an image URL was extracted;     *)
(* then it is the numbered image blocks joined by one line-break, after    *)
(* the mapped description and a double line-break when that is non-empty,  *)
(* alone otherwise.  No other mapped field changes, and the image list is  *)
(* returned as the mapper gave it.                                         *)
C14_ImagesEmbedded ==
    BuildReturned =>
        LET embeds == embedImages /\ built.image_urls # <<>>
            same   == /\ ("description" \in DOMAIN built.tapd_fields)
                            <=> ("description" \in DOMAIN built.mapped)
                      /\ DescriptionOf(built.tapd_fields) = DescriptionOf(built.mapped)
        IN  /\ same <=> ~embeds
            /\ embeds => built.tapd_fields["description"]
                            = WithImages(DescriptionOf(built.mapped), built.image_urls)
            /\ \A k \in (DOMAIN built.mapped) \ {"description"} :
                  built.tapd_fields[k] = built.mapped[k]
            /\ built.image_urls = ExtractedInOrder(Ascending(CarrierIndices))

C14_Witness ==
    /\ BuildReturned /\ embedImages
    /\ Len(built.image_urls) = 2
    /\ DescriptionOf(built.mapped) = IN_x
    /\ built.tapd_fields["description"] # IN_x

----------------------------------------------------------------------------
(* Vocabulary of the orchestration properties.                             *)

\* create_ticket returned for the request in flight (webhook or direct call)
TicketReturned == pc \in {"done", "returned"} /\ ~HasKey(received, "challenge")

\* the public links, written out
StoryLink(id) == <<"h", "t", "t", "p", "s", ":", "/", "/", "w", "w", "w", ".", "t", "a", "p", "d", ".", "c", "n", "/", "4", "1", "8", "2", "7", "9", "9", "7", "/", "p", "r", "o", "n", "g", "/", "s", "t", "o", "r", "i", "e", "s", "/", "v", "i", "e", "w", "/">> \o id
BugLink(id) == <<"h", "t", "t", "p", "s", ":", "/", "/", "w", "w", "w", ".", "t", "a", "p", "d", ".", "c", "n", "/", "4", "1", "8", "2", "7", "9", "9", "7", "/", "b", "u", "g", "t", "r", "a", "c", "e", "/", "b", "u", "g", "s", "/", "v", "i", "e", "w", "/">> \o id

(* C15.  For story and bug, create_ticket succeeds iff the build returned  *)
(* and the submission answered with an identifier; then ticket_id is that  *)
(* identifier, ticket_type the requested type and ticket_url the story or  *)
(* bug link of it.  An answer without identifier gives a failure with a    *)
(* message and neither ticket_id nor ticket_url.                           *)
C15_SuccessNeedsIdentifier ==
    (TicketReturned /\ ticket_type \in {"story", "bug"}) =>
        /\ result.success <=> (built.status = "ok" /\ api_reply.kind = "id")
        /\ result.success =>
              /\ result.ticket_id = api_reply.id
              /\ result.ticket_type = ticket_type
              /\ result.ticket_url = IF ticket_type = "story"
                                     THEN StoryLink(api_reply.id)
                                     ELSE BugLink(api_reply.id)
        /\ (built.status = "ok" /\ api_reply.kind = "noid") =>
              /\ ~result.success
              /\ result.error_message # <<>>
              /\ result.ticket_id = <<>>
              /\ result.ticket_url = <<>>

C15_Witness ==
    /\ pc = "done" /\ ticket_type = "bug"
    /\ result.success
    /\ result.ticket_url = BugLink(S_ticket_id)

(* C16.  create_ticket with a type outside story, bug, task returns a      *)
(* failure whose message names the type; no submission call and no mapping *)
(* call is made.                                                           *)
C16_UnsupportedType ==
    (TicketReturned /\ ticket_type \notin {"story", "bug", "task"}) =>
        /\ ~result.success
        /\ result.error_message = <<"UnsupportedType", ticket_type>>
        /\ calls = <<>>
        /\ built = NotBuilt

C16_Witness ==
    /\ pc = "returned" /\ ticket_type = "epic"
    /\ record_data = VDict(<< <<"biaoti", VStr(IN_T)>> >>)
    /\ ~result.success

\* text t occurs in message m
Carries(m, t) ==
    \E i \in 1..(Len(m) - Len(t) + 1) : SubSeq(m, i, i + Len(t) - 1) = t

\* the one submission call of the request was made and did not give a ticket
SubmissionFailed ==
    pc \in {"done", "returned"} /\ Len(calls) = 1 /\ api_reply.kind # "id"

\* the prefix under which the exception in api_reply is reported for the call
\* that was made
RaisedPrefix ==
    IF api_reply.exc = "ValueError" /\ calls[1].kind \in {"story", "bug"}
    THEN "ValidationFailed"
    ELSE CASE calls[1].kind = "story" -> "CreateStoryFailed"
           [] calls[1].kind = "bug"   -> "CreateBugFailed"
           [] calls[1].kind = "task"  -> "CreateTaskFailed"

(* C17, as stated.  A request makes at most one submission call; when that *)
(* call fails, by an exception of the client or by an answer without       *)
(* identifier, the request ends with a failure whose message carries the   *)
(* text the client gave.                                                   *)
C17_FailureCarriesClientText ==
    /\ Len(calls) <= 1
    /\ SubmissionFailed =>
          /\ ~result.success
          /\ Carries(result.error_message, api_reply.text)
          /\ pc = "done" => Carries(response.message, api_reply.text)

(* C17, amended.  A request makes at most one submission call and no      *)
(* second one after a failure.  When the client raises, the failure's      *)
(* message is the text of the exception after a prefix: "ValidationFailed" *)
(* for a ValueError on a story or a bug, the type's own prefix otherwise.  *)
(* When the client answers without identifier, the message is the fixed    *)
(* "NoTicketId" whatever the answer holds; the answer is kept in the       *)
(* result's raw_response only, and the response of handle_request carries  *)
(* the message and no data.                                                *)
C17_SingleSubmission ==
    /\ Len(calls) <= 1
    /\ calls = <<>> <=> api_reply = NoReply
    /\ SubmissionFailed =>
          /\ ~result.success
          /\ api_reply.kind = "raise" =>
                /\ result.error_message = <<RaisedPrefix>> \o api_reply.text
                /\ result.raw_response = NoReply
          /\ api_reply.kind = "noid" =>
                /\ result.error_message = <<"NoTicketId">>
                /\ result.raw_response = api_reply
          /\ pc = "done" =>
                /\ response.status = "error"
                /\ response.message = result.error_message
                /\ response.data = VNull

\* a story was submitted once, the client answered without identifier and
\* with other content, and the request ended with the fixed message
C17_Witness ==
    /\ pc = "done" /\ Len(calls) = 1 /\ calls[1].kind = "story"
    /\ api_reply.kind = "noid" /\ api_reply.text = <<"Refused">>
    /\ response.message = <<"NoTicketId">>

(* C18.  For every payload without challenge, handle_request returns one  *)
(* of two shapes: on success status "success", code 0 and the ticket id,   *)
(* ticket url and ticket type as direct members of the response; on        *)
(* failure status "error", code -1 and the message.  The status is         *)
(* "success" iff the result of create_ticket has success = true.           *)
C18_ResponseShapes ==
    /\ pc # "fault"
    /\ (pc = "done" /\ ~HasKey(received, "challenge")) =>
          /\ response.status = "success" <=> result.success
          /\ result.success =>
                /\ response.code = 0
                /\ {"ticket_id", "ticket_url", "ticket_type"} \subseteq DOMAIN response
          /\ ~result.success =>
                /\ response.status = "error"
                /\ response.code = 0 - 1
                /\ response.message = result.error_message

(* C19.  A payload with the key challenge that is given to handle_request, *)
(* whatever its value and its other keys, is answered with exactly that    *)
(* challenge; it is neither classified nor mapped nor submitted.           *)
InHandleRequest == pc \in {"parsed", "done", "fault"}

C19_ChallengePassThrough ==
    (InHandleRequest /\ HasKey(received, "challenge")) =>
        /\ pc = "done"
        /\ response = [challenge |-> DictGet(received, "challenge", VNull)]
        /\ hint = VNull /\ ticket_type = "" /\ record_data = VNull
        /\ built = NotBuilt
        /\ calls = <<>>
        /\ result = NoResult

C19_Witness ==
    /\ pc = "done"
    /\ HasKey(received, "challenge") /\ HasKey(received, "record")
    /\ DictGet(received, "challenge", VStr(IN_x)) = VNull
    /\ response = [challenge |-> VNull]

(* C20.  create_ticket never raises: for every ticket type and record and  *)
(* every answer or exception of the client, whichever handler catches it,  *)
(* it returns a result that is a success or a failure with a non-empty     *)
(* message; a payload that was classified is answered by handle_request    *)
(* with the success or the error response.                                 *)
C20_FailuresBecomeResults ==
    /\ pc = "parsed" =>
          \A reply \in ApiReplies :
              LET r == create_ticket(ticket_type, record_data, reply).result IN
              r.success \/ r.error_message # <<>>
    /\ TicketReturned => (result.success \/ result.error_message # <<>>)
    /\ (pc = "done" /\ ~HasKey(received, "challenge")) =>
          /\ response.status \in {"success", "error"}
          /\ response.status = "error" <=> ~result.success
          /\ ~result.success => response.message = result.error_message

\* the client raised a ValueError on the submission of a bug and the request
\* was answered with the error response
C20_Witness ==
    /\ pc = "done" /\ ticket_type = "bug"
    /\ Len(calls) = 1
    /\ api_reply.kind = "raise" /\ api_reply.exc = "ValueError"
    /\ ~result.success
    /\ response.status = "error"
    /\ response.message = <<"ValidationFailed", "BadAnswer">>

----------------------------------------------------------------------------
(* C21: concurrent requests on the shared handler.                         *)

\* what request q's payload gives when it is processed alone
AloneParse(q) == parse_feishu_request(q.received)

AloneBuilt(q) ==
    LET p == AloneParse(q) IN
    IF p.ticket_type = "story" THEN build_story(p.record_data.d, TRUE)
                               ELSE build_bug(p.record_data.d, TRUE)

\* the mapper's locals after the first n entries of q's record, q processed alone
AloneMapped(q, n) ==
    IF q.ticket_type = "story" THEN map_story_loop(MapStart, SubSeq(q.record_data, 1, n))
                               ELSE map_bug_loop(MapStart, SubSeq(q.record_data, 1, n))

\* the submission of q's payload processed alone, when the client answers reply
AloneCalls(q, reply) ==
    LET p == AloneParse(q) IN
    create_ticket(p.ticket_type, p.record_data, reply).calls

\* C21: whatever the interleaving of two requests on the shared handler, a
\* request in its mapping pass has, after each loop iteration run on the
\* handler as it is at that moment, the mapped fields and images that its
\* record gives up to that entry when processed alone; a finished request has
\* the classification, the mapped fields, the image list and the submitted
\* fields that its payload gives when processed alone; the handler's
\* vocabulary tables and configuration are the configured ones at every
\* moment; and two requests with the same payload end with the same mapped
\* fields, the same images in the same order and the same submission.
C21_RequestsIndependent ==
    /\ handler = Handler
    /\ \A r \in DOMAIN inflight :
          /\ inflight[r].pc = "mapping" =>
                /\ inflight[r].ticket_type = AloneParse(inflight[r]).ticket_type
                /\ inflight[r].acc = AloneMapped(inflight[r], inflight[r].next - 1)
          /\ inflight[r].pc = "done" =>
                /\ inflight[r].ticket_type = AloneParse(inflight[r]).ticket_type
                /\ inflight[r].built = AloneBuilt(inflight[r])
                /\ inflight[r].acc.tapd_data = AloneBuilt(inflight[r]).mapped
                /\ inflight[r].acc.image_urls = AloneBuilt(inflight[r]).image_urls
                /\ \A reply \in ApiReplies :
                      inflight[r].calls = AloneCalls(inflight[r], reply)
    /\ \A r1 \in DOMAIN inflight, r2 \in DOMAIN inflight :
          /\ inflight[r1].pc = "done" /\ inflight[r2].pc = "done"
          /\ inflight[r1].received = inflight[r2].received
          => /\ inflight[r1].built = inflight[r2].built
             /\ inflight[r1].calls = inflight[r2].calls

\* two different requests, both finished, each with images and a submission,
\* whose mapping passes ran entry by entry into one another
C21_Witness ==
    /\ Len(inflight) = 2
    /\ inflight[1].pc = "done" /\ inflight[2].pc = "done"
    /\ inflight[1].received # inflight[2].received
    /\ inflight[1].ticket_type # inflight[2].ticket_type
    /\ inflight[1].overlapped /\ inflight[2].overlapped
    /\ inflight[1].acc.image_urls # <<>> /\ inflight[2].acc.image_urls # <<>>
    /\ inflight[1].calls # <<>> /\ inflight[2].calls # <<>>

----------------------------------------------------------------------------
(* C22: the category rule of map_story_fields.                             *)

CategoryLabels == {"biaoqianleixing", "xuqiuleibie"}

\* the story record in flight as the mapping loop sees it
StoryMapped == MapperDone /\ ticket_type = "story"

\* tapd_data after the first n entries of the record in flight
DataAfter(n) == map_story_loop(MapStart, SubSeq(record_data.d, 1, n)).tapd_data

\* the category entries of the record in flight that the loop does not skip
CategoryIndices ==
    { i \in 1..Len(record_data.d) :
        /\ record_data.d[i][1] \in CategoryLabels
        /\ ~is_skipped(record_data.d[i][2]) }

\* the two fields agree on key k: both lack it or both hold the same value
SameAt(d1, d2, k) ==
    /\ k \in DOMAIN d1 <=> k \in DOMAIN d2
    /\ k \in DOMAIN d1 => d1[k] = d2[k]

\* C22: in the pass of map_story_fields over a record, a category entry
\* (biaoqianleixing or xuqiuleibie) with raw value v leaves the mapped fields
\* as they were, except that workitem_type_id becomes the identifier the
\* category table gives for v when it gives one, and label becomes v when no
\* label key was present before the entry; nothing is stored under the
\* entry's field-table target otherwise, so an unresolvable v is never the
\* value of workitem_type_id and never replaces a label.  The mapped fields
\* the builder holds are those after the last entry.
C22_CategoryRule ==
    StoryMapped =>
        /\ built.mapped = DataAfter(Len(record_data.d))
        /\ \A i \in CategoryIndices :
              LET before == DataAfter(i - 1)
                  after  == DataAfter(i)
                  raw    == PyStr(record_data.d[i][2])
                  id     == get_type_id(raw)
              IN  /\ \A k \in (DOMAIN before \cup DOMAIN after)
                                  \ {"workitem_type_id", "label"} :
                         SameAt(before, after, k)
                  /\ IF id # <<>>
                     THEN "workitem_type_id" \in DOMAIN after
                          /\ after["workitem_type_id"] = id
                     ELSE SameAt(before, after, "workitem_type_id")
                  /\ IF "label" \in DOMAIN before
                     THEN "label" \in DOMAIN after /\ after["label"] = before["label"]
                     ELSE "label" \in DOMAIN after /\ after["label"] = raw

\* a story whose first category entry does not resolve and gives the label,
\* and whose second resolves after a label is present
C22_Witness ==
    /\ StoryMapped /\ pc = "done" /\ calls # <<>>
    /\ Cardinality(CategoryIndices) = 2
    /\ record_data.d[1] = <<"xuqiuleibie", VStr(IN_junk)>>
    /\ built.mapped["label"] = IN_a
    /\ built.mapped["workitem_type_id"] = get_type_id(IN_FX)
    /\ "workitem_type_id" \notin DOMAIN DataAfter(1)
    /\ DataAfter(1)["label"] = IN_junk

----------------------------------------------------------------------------
(* C23: the category lookup.                                               *)

\* the two labels are equal up to letter case
SameUpToCase(a, b) == Lower(a) = Lower(b)

\* C23: get_type_id gives, for a label equal up to letter case to a key K of
\* the category table, the identifier stored for K (the exact key first), and
\* gives "not found" only for a label that equals no key up to letter case.
C23_CaseInsensitiveLookup ==
    pure.f = "get_type_id" =>
        /\ \A p \in label_to_type_id :
              p[1] = pure.x.s => pure.y = p[2]
        /\ \A p \in label_to_type_id :
              SameUpToCase(p[1], pure.x.s) => pure.y = p[2]
        /\ pure.y = <<>> =>
              \A p \in label_to_type_id : ~SameUpToCase(p[1], pure.x.s)

----------------------------------------------------------------------------
(* C24: where the keys of the mapped fields come from.                     *)

\* the field-name table and the allow-list of the ticket type in flight
FieldTable == IF ticket_type = "story" THEN story_field_mapping ELSE bug_field_mapping
AllowList  == IF ticket_type = "story" THEN story_native_fields ELSE bug_native_fields

\* the entry's label is in the table or in the allow-list
Recognized(e) == e[1] \in DOMAIN FieldTable \/ e[1] \in AllowList

\* the labels of the record in flight
LabelsPresent == { record_data.d[i][1] : i \in 1..Len(record_data.d) }

\* C24: every key of the mapped fields is the table target of a label of the
\* record, or a label of the record that is in the allow-list of the ticket
\* type, or (story) workitem_type_id / label when the record has a category
\* entry; and the entries whose label is in neither the table nor the
\* allow-list contribute nothing: fields and images are those of the record
\* without them.
C24_KeysComeFromTableOrAllowList ==
    MapperDone =>
        /\ \A k \in DOMAIN built.mapped :
              \/ \E l \in LabelsPresent : l \in DOMAIN FieldTable /\ FieldTable[l] = k
              \/ k \in LabelsPresent /\ k \in AllowList
              \/ /\ ticket_type = "story"
                 /\ k \in {"workitem_type_id", "label"}
                 /\ LabelsPresent \cap CategoryLabels # {}
        /\ built.mapped = MappedAlone(SelectSeq(record_data.d, Recognized))
        /\ built.image_urls =
              (IF ticket_type = "story"
               THEN map_story_fields(SelectSeq(record_data.d, Recognized))
               ELSE map_bug_fields(SelectSeq(record_data.d, Recognized))).image_urls

\* a bug whose title came under the canonical key itself, beside an entry
\* with an unknown label, submitted with the title alone
C24_Witness ==
    /\ MapperDone /\ pc = "done" /\ ticket_type = "bug"
    /\ LabelsPresent = {"title", "foo"}
    /\ built.mapped = [title |-> IN_T]
    /\ calls # <<>>

----------------------------------------------------------------------------
(* C25: several entries for one target key.                                *)

\* entry e resolves to target key k: through the table, else verbatim
ResolvesTo(e, k) ==
    IF e[1] \in DOMAIN FieldTable THEN FieldTable[e[1]] = k
    ELSE e[1] \in AllowList /\ e[1] = k

\* the entries of the record in flight that resolve to k
EntriesFor(k) == { i \in 1..Len(record_data.d) : ResolvesTo(record_data.d[i], k) }

\* those whose value is neither null nor the empty string
LiveFor(k) == { i \in EntriesFor(k) : ~is_skipped(record_data.d[i][2]) }

\* the target keys several entries of the record resolve to, one at least
\* with a value; the image marker is no key of the mapped fields (C13)
RepeatedTargets ==
    { k \in DOMAIN built.mapped \cup { FieldTable[l] : l \in DOMAIN FieldTable } :
        /\ k # "_images"
        /\ Cardinality(EntriesFor(k)) >= 2
        /\ LiveFor(k) # {} }

\* C25 as stated: when several entries of a record resolve to one target
\* key, the mapped value under that key is the cleaned value of the last of
\* them, in record order, whose value is neither null nor the empty string.
C25_LastNonEmptyWins ==
    MapperDone =>
        \A k \in RepeatedTargets :
            /\ k \in DOMAIN built.mapped
            /\ built.mapped[k] = _clean_value(record_data.d[SetMax(LiveFor(k))][2])

\* a category entry of a story: stored by the category rule, not under its
\* table target
IsCategoryEntry(i) ==
    ticket_type = "story" /\ record_data.d[i][1] \in CategoryLabels

\* the entries that resolve to k and are stored under it
PlainFor(k) == { i \in EntriesFor(k) : ~IsCategoryEntry(i) }

PlainLiveFor(k) == { i \in PlainFor(k) : ~is_skipped(record_data.d[i][2]) }

\* what the pass stores for a value under key k: the cleaned value, after
\* the vocabulary conversion for the priority and severity keys
StoredUnder(k, value) ==
    IF k \in {"priority", "priority_label"}
    THEN _clean_value(VStr(_map_priority(PyStr(value))))
    ELSE IF ticket_type = "bug" /\ k = "severity"
    THEN _clean_value(VStr(_map_severity(PyStr(value))))
    ELSE _clean_value(value)

PlainRepeatedTargets ==
    { k \in DOMAIN built.mapped \cup { FieldTable[l] : l \in DOMAIN FieldTable } :
        /\ k # "_images"
        /\ Cardinality(PlainFor(k)) >= 2
        /\ PlainLiveFor(k) # {} }

\* C25 amended: when several entries of a record, a story's category entries
\* apart, resolve to one target key, the mapped value under that key is what
\* the pass stores for the last of them, in record order, whose value is
\* neither null nor the empty string: its cleaned value, for the priority and
\* severity keys the cleaned vocabulary conversion of it.  Entries with a null
\* or empty value, wherever they stand, change nothing.
C25_LastPlainNonEmptyWins ==
    MapperDone =>
        \A k \in PlainRepeatedTargets :
            /\ k \in DOMAIN built.mapped
            /\ built.mapped[k] =
                   StoredUnder(k, record_data.d[SetMax(PlainLiveFor(k))][2])

\* a story submitted under the name of its second title entry, the third,
\* empty, having changed nothing
C25_Witness ==
    /\ MapperDone /\ pc = "done" /\ ticket_type = "story" /\ calls # <<>>
    /\ EntriesFor("name") = {1, 2, 3}
    /\ LiveFor("name") = {1, 2}
    /\ built.mapped["name"] = IN_T
    /\ record_data.d[1][2] = VStr(IN_N)

----------------------------------------------------------------------------
(* C26: value cleaning by shape.                                           *)

\* an element that is nothing: null, the empty string, an empty list or
\* object; a number, zero included, is something
EmptyElement(e) ==
    \/ e.t = "null"
    \/ e.t = "str" /\ e.s = <<>>
    \/ e.t = "list" /\ e.items = <<>>
    \/ e.t = "dict" /\ e.d = <<>>

NonEmptyElement(e) == ~EmptyElement(e)

\* the cleaned string of a value, shape by shape, as worded
CleanedByShape(value) ==
    CASE value.t = "str" -> Strip(value.s)
      [] value.t = "num" -> IntStr(value.n)
      [] value.t = "list" /\ Len(value.items) = 1 -> Strip(PyStr(value.items[1]))
      [] value.t = "list" /\ Len(value.items) >= 2 ->
            LET kept == SelectSeq(value.items, NonEmptyElement) IN
            Join([i \in 1..Len(kept) |-> Strip(PyStr(kept[i]))], <<"|">>)
      [] OTHER -> PyStr(value)

\* C26: _clean_value gives, for a string, the string trimmed; for a number,
\* its decimal string; for a list of one element, the trimmed string of the
\* element; for a list of two or more, the trimmed strings of its non-empty
\* elements joined with "|", a numeric element such as 0 being kept; for any
\* other shape, its string form.  (A list without elements is none of the
\* listed list shapes and is left out.)
C26_CleanByShape ==
    (pure.f = "_clean_value" /\ pure.x # VList(<<>>)) =>
        pure.y = CleanedByShape(pure.x)

\* the conversions that scan free text
Converters == {"auto_convert_urls_in_text", "auto_convert_image_urls"}

ConvertAgain(f, text) ==
    IF f = "auto_convert_urls_in_text" THEN auto_convert_urls_in_text(text)
    ELSE auto_convert_image_urls(text)

TagOf(f, url) ==
    IF f = "auto_convert_urls_in_text" THEN img_tag_styled(url) ELSE img_tag_plain(url)

\* the text already holds image markup
Marked(text) == Contains(text, S_img_tag) /\ Contains(text, S_src_eq)

Occurrences(text, p) ==
    Cardinality({ i \in 1..(Len(text) - Len(p) + 1) : SubSeq(text, i, i + Len(p) - 1) = p })

\* the words of a text: its longest stretches free of whitespace, angle
\* brackets and quotes, as pairs of first and last position
Stretches(text) ==
    { w \in (1..Len(text)) \X (1..Len(text)) :
        /\ w[1] <= w[2]
        /\ \A k \in w[1]..w[2] : UrlChar(text[k])
        /\ w[1] = 1 \/ ~UrlChar(text[w[1] - 1])
        /\ w[2] = Len(text) \/ ~UrlChar(text[w[2] + 1]) }

\* a word holds an image URL: somewhere in it http:// or https://, then at
\* least one character, then a dot and an image extension
HoldsImageUrl(text, w) ==
    \E i \in w[1]..w[2] :
        /\ SchemeAt(text, i) > 0
        /\ \E d \in (i + SchemeAt(text, i) + 1)..w[2] : ExtAt(text, d) > 0

\* a word is a bare image URL: it starts with the scheme and ends with an
\* image extension, with something in between
BareImageUrl(u) ==
    /\ SchemeAt(u, 1) > 0
    /\ \E ext \in image_extensions :
          EndsWith(Lower(u), ext) /\ Len(u) > SchemeAt(u, 1) + Len(ext)

\* C27: a text holding both "<img" and "src=" comes back unchanged; applying
\* the conversion to its own result changes nothing; and on a text without
\* that markup there is one tag per word holding an image URL, nothing else
\* is added or lost, and every word that is a bare image URL stands whole in
\* the src of its own tag, as many times as the word occurs.
C27_NeverDoubleWraps ==
    pure.f \in Converters =>
        LET text == pure.x.s
            out  == pure.y.s
            held == { w \in Stretches(text) : HoldsImageUrl(text, w) }
            bare == { w \in Stretches(text) : BareImageUrl(SubSeq(text, w[1], w[2])) }
        IN  /\ Marked(text) => out = text
            /\ ConvertAgain(pure.f, out) = out
            /\ ~Marked(text) =>
                  /\ Occurrences(out, S_img_src) = Cardinality(held)
                  /\ Len(out) = Len(text) + Cardinality(held) * Len(TagOf(pure.f, <<>>))
                  /\ \A w \in bare :
                        LET u == SubSeq(text, w[1], w[2]) IN
                        Occurrences(out, TagOf(pure.f, u)) =
                            Cardinality({ v \in bare : SubSeq(text, v[1], v[2]) = u })

\* C27 witness: a conversion has run on a text holding the same bare image
\* URL twice, and each occurrence stands in a tag of its own
C27_Witness ==
    /\ pure.f \in Converters
    /\ pure.x = VStr(TX_same_twice)
    /\ Occurrences(pure.y.s, TagOf(pure.f, IN_png)) = 2

\* the story calls made to the tracker for the request in flight
StoryCalls == { i \in 1..Len(calls) : calls[i].kind = "story" }

\* C28 as worded: in every story mapped-fields result, and in every story
\* call to the tracker, workitem_type_id, when present, is one of the
\* identifiers of the category table.
C28_TypeIdFromTable ==
    StoryMapped =>
        /\ "workitem_type_id" \in DOMAIN built.mapped =>
              built.mapped["workitem_type_id"] \in TableValues(label_to_type_id)
        /\ \A c \in StoryCalls :
              "workitem_type_id" \in DOMAIN calls[c].fields =>
                  calls[c].fields["workitem_type_id"] \in TableValues(label_to_type_id)

\* the entries of the record in flight that write workitem_type_id: a
\* category entry whose value the table resolves, or an entry labelled with
\* the canonical key itself
ResolvedCategory(i) ==
    /\ i \in CategoryIndices
    /\ get_type_id(PyStr(record_data.d[i][2])) # <<>>

VerbatimTypeId(i) ==
    /\ record_data.d[i][1] = "workitem_type_id"
    /\ ~is_skipped(record_data.d[i][2])

TypeIdWriters ==
    { i \in 1..Len(record_data.d) : ResolvedCategory(i) \/ VerbatimTypeId(i) }

\* C28 amended: in every story mapped-fields result workitem_type_id is
\* present exactly when some entry writes it, and it is what the last such
\* entry wrote: for a category entry the identifier the category table gives
\* for its value, which is one of the table's identifiers and never the raw
\* value; for an entry labelled workitem_type_id itself, the cleaned value
\* of that entry, whatever it is.  A story call to the tracker carries the
\* same value.
C28_TypeIdFromTableOrVerbatim ==
    StoryMapped =>
        /\ "workitem_type_id" \in DOMAIN built.mapped <=> TypeIdWriters # {}
        /\ TypeIdWriters # {} =>
              LET i == SetMax(TypeIdWriters)
                  v == record_data.d[i][2]
              IN  IF VerbatimTypeId(i)
                  THEN built.mapped["workitem_type_id"] = _clean_value(v)
                  ELSE /\ built.mapped["workitem_type_id"] = get_type_id(PyStr(v))
                       /\ built.mapped["workitem_type_id"] \in TableValues(label_to_type_id)
        /\ \A i \in CategoryIndices \ TypeIdWriters :
              SameAt(DataAfter(i - 1), DataAfter(i), "workitem_type_id")
        /\ \A c \in StoryCalls :
              /\ "workitem_type_id" \in DOMAIN calls[c].fields
                     <=> "workitem_type_id" \in DOMAIN built.mapped
              /\ "workitem_type_id" \in DOMAIN built.mapped =>
                     calls[c].fields["workitem_type_id"] = built.mapped["workitem_type_id"]

\* C28 witness: a story was submitted whose record has a resolving category
\* entry followed by an entry labelled workitem_type_id with a value the
\* table does not know, and the tracker was sent that raw value
C28_Witness ==
    /\ StoryMapped
    /\ Len(calls) = 1
    /\ \E i \in TypeIdWriters : ResolvedCategory(i) /\ i < SetMax(TypeIdWriters)
    /\ VerbatimTypeId(SetMax(TypeIdWriters))
    /\ calls[1].fields["workitem_type_id"] = IN_junk
    /\ IN_junk \notin TableValues(label_to_type_id)

\* handle_request was called for the request in flight
ReachedHandler == pc \in {"parsed", "done", "fault"}

\* the signature the sender should have attached
RightSignature ==
    VStr(sha256_hexdigest(HeaderOrEmpty(http.timestamp) \o HeaderOrEmpty(http.nonce)
                          \o verification_token \o http.text))

\* C29: with a verification token configured, handle_request is reached, and
\* so a ticket created, only for a request whose signature header equals
\* sha256(timestamp + nonce + token + body); a request with a wrong
\* signature or without the header is not handled.
C29_OnlySignedRequestsHandled ==
    (verification_token # <<>> /\ http # NoHttp /\ ReachedHandler) =>
        http.signature = RightSignature

\* the labels that name the generic label of a story
GenericLabels == {"biaoqian", "label"}

\* the entries of d under a generic label, and those of them the loop keeps
GenericEntries(d) == { i \in 1..Len(d) : d[i][1] \in GenericLabels }

LiveGeneric(d) == { i \in GenericEntries(d) : ~is_skipped(d[i][2]) }

\* the category entries of d the loop keeps
LiveCategory(d) ==
    { i \in 1..Len(d) : d[i][1] \in CategoryLabels /\ ~is_skipped(d[i][2]) }

SetMin(S) == CHOOSE x \in S : \A y \in S : x <= y

\* every ordering of the entries of d
Orderings(d) ==
    { [i \in 1..Len(d) |-> d[f[i]]] :
        f \in { g \in [1..Len(d) -> 1..Len(d)] :
                  \A i, j \in 1..Len(d) : g[i] = g[j] => i = j } }

\* the mapped fields of the entries d, taken in the order given
MappedOf(d) == map_story_fields(d).tapd_data

\* the label was last written by a category entry of the record in flight
LabelFromCategory ==
    /\ LiveCategory(record_data.d) # {}
    /\ \E i \in LiveCategory(record_data.d) :
          /\ "label" \notin DOMAIN DataAfter(i - 1)
          /\ \A j \in LiveGeneric(record_data.d) : j < i

\* C30 as worded: for a story record with exactly one non-empty generic-label
\* entry, in every ordering of its entries the label is the cleaned value of
\* that entry and workitem_type_id is the same; the category text becomes the
\* label only when the record has no generic-label entry, and then it is the
\* text of the first category entry.
C30_OrderFree ==
    StoryMapped =>
        LET d == record_data.d IN
        /\ Cardinality(LiveGeneric(d)) = 1 =>
              LET g == CHOOSE i \in LiveGeneric(d) : TRUE IN
              \A o \in Orderings(d) :
                  /\ "label" \in DOMAIN MappedOf(o)
                  /\ MappedOf(o)["label"] = _clean_value(d[g][2])
                  /\ SameAt(MappedOf(o), built.mapped, "workitem_type_id")
        /\ LabelFromCategory => GenericEntries(d) = {}
        /\ (GenericEntries(d) = {} /\ LiveCategory(d) # {}) =>
              built.mapped["label"] = PyStr(d[SetMin(LiveCategory(d))][2])

\* the entries of d that write workitem_type_id
TypeIdWritersOf(d) ==
    { i \in 1..Len(d) :
        \/ i \in LiveCategory(d) /\ get_type_id(PyStr(d[i][2])) # <<>>
        \/ d[i][1] = "workitem_type_id" /\ ~is_skipped(d[i][2]) }

\* what the last of them writes
LastTypeId(d) ==
    LET i == SetMax(TypeIdWritersOf(d)) IN
    IF d[i][1] = "workitem_type_id" THEN _clean_value(d[i][2])
    ELSE get_type_id(PyStr(d[i][2]))

\* C30 amended: for a story record with exactly one non-empty generic-label
\* entry, in every ordering of its entries the label is the cleaned value of
\* that entry, and workitem_type_id is what the last entry of that ordering
\* that writes it wrote, so it is the same for every ordering exactly when
\* the writing entries agree; the category text becomes the label only when
\* the record has no non-empty generic-label entry, and then it is the text
\* of the first non-empty category entry.
C30_LabelOrderFree ==
    StoryMapped =>
        LET d == record_data.d IN
        /\ Cardinality(LiveGeneric(d)) = 1 =>
              LET g == CHOOSE i \in LiveGeneric(d) : TRUE IN
              \A o \in Orderings(d) :
                  /\ "label" \in DOMAIN MappedOf(o)
                  /\ MappedOf(o)["label"] = _clean_value(d[g][2])
                  /\ "workitem_type_id" \in DOMAIN MappedOf(o) <=> TypeIdWritersOf(o) # {}
                  /\ TypeIdWritersOf(o) # {} =>
                        MappedOf(o)["workitem_type_id"] = LastTypeId(o)
        /\ LabelFromCategory => LiveGeneric(d) = {}
        /\ (LiveGeneric(d) = {} /\ LiveCategory(d) # {}) =>
              built.mapped["label"] = PyStr(d[SetMin(LiveCategory(d))][2])

\* C30 witness: a story with one generic label and two category entries that
\* resolve to different identifiers; the label is the generic one, and the
\* ordering with the category entries exchanged gives the other identifier
C30_Witness ==
    /\ StoryMapped
    /\ Cardinality(LiveGeneric(record_data.d)) = 1
    /\ Cardinality(LiveCategory(record_data.d)) = 2
    /\ built.mapped["label"] = IN_a
    /\ built.mapped["workitem_type_id"] = get_type_id(IN_QA)
    /\ \E o \in Orderings(record_data.d) :
          /\ MappedOf(o)["label"] = IN_a
          /\ MappedOf(o)["workitem_type_id"] = get_type_id(IN_FX)

=============================================================================
